---- MODULE Spec2Model ----
(***************************************************************************)
(* Coincidence-counting engine of coincfinder (src/src/Coincidences.cpp):  *)
(* the fixed-delay two-pointer sweep, the difference-array delay scan, the *)
(* best-delay locator and the N-fold sliding-window counter.               *)
(*                                                                         *)
(* The functions are stateless: a behaviour is one call.  Init is the      *)
(* caller before the call: it holds two sorted timestamp views, view1 and  *)
(* view2, and a reusable `results` vector with whatever an earlier scan    *)
(* left in it.  Each action is one public function applied to the views    *)
(* (the N-fold count: to channel lists built on them) and to               *)
(* parameters drawn from bounded sets; it leaves the parameters, the       *)
(* thrown flag, the return value and the `results` vector in the state.    *)
(*                                                                         *)
(* Indices i, j, jLo, jHi, idx, left, right are 0-based as in the source;  *)
(* element k of a C++ vector v is v[k + 1] here.                           *)
(***************************************************************************)
EXTENDS Integers, Sequences, FiniteSets, TLC

VARIABLES pc, op, view1, view2, args, results, threw, ret, matches,
          scratch, singles, channels_, latestChunks_, windowSeconds_,
          latestSecond_, nOps, workers, files, jobsDone

\* The state of a call into the coincidence engine.
engineVars == <<pc, op, view1, view2, args, results, threw, ret, matches>>

\* The bridge's scratch buffer, a Singles under construction, the members of
\* a RollingSingles, and the number of mutating calls made on them.
storeVars == <<scratch, singles, channels_, latestChunks_, windowSeconds_,
               latestSecond_, nOps>>

\* The delay-scan driver's parallel loop: the locals of each iteration of
\* the loop over activePairs, the files of Delay_Scan_Data, and the counter.
driverVars == <<workers, files, jobsDone>>

vars == <<pc, op, view1, view2, args, results, threw, ret, matches,
          scratch, singles, channels_, latestChunks_, windowSeconds_,
          latestSecond_, nOps, workers, files, jobsDone>>

\* ------------------------------------------------------------------ bounds

\* Longest timestamp stream drawn for a channel.
MaxLen == 2

\* Largest timestamp (ps) drawn for an event of a generic stream.
MaxTime == 3

\* ------------------------------------------------------- program constants

kPicosecondsPerNanosecond == 1000

\* std::numeric_limits<int>::min()
IntMin == -2147483647 - 1

\* Significand width of an IEEE-754 binary32 `float`.
FloatDigits == 24

\* ----------------------------------------------------------------- helpers

Abs(x) == IF x < 0 THEN -x ELSE x

Sgn(x) == IF x < 0 THEN -1 ELSE 1

\* std::max / std::min on long long.
StdMax(a, b) == IF a < b THEN b ELSE a

StdMin(a, b) == IF b < a THEN b ELSE a

\* C++ integer division: truncation toward zero (b > 0).
CppDiv(a, b) == IF a >= 0 THEN a \div b ELSE -((-a) \div b)

IsSorted(s) == \A k \in 1..(Len(s) - 1) : s[k] <= s[k + 1]

\* ------------------------------------------------- float <-> picoseconds

\* A float is [m, e]: the value m / 2^e, with |m| < 2^FloatDigits, and
\* 2^(FloatDigits-1) <= |m| whenever e > 0 (one record per value).

\* Number of low bits an integer a >= 0 has beyond FloatDigits significant ones.
RECURSIVE ExcessBits(_, _)
ExcessBits(a, k) ==
    IF a < 2 ^ (FloatDigits + k) THEN k ELSE ExcessBits(a, k + 1)

\* static_cast<float>(long long): round to nearest, ties to even.
FloatFromInt(x) ==
    LET a == Abs(x)
        k == ExcessBits(a, 0)
        u == 2 ^ k
        q == a \div u
        r == a % u
        up == (2 * r > u) \/ (2 * r = u /\ q % 2 = 1)
    IN  IF k = 0 THEN x ELSE Sgn(x) * (IF up THEN q + 1 ELSE q) * u

\* Long division of a / kPicosecondsPerNanosecond: extends the quotient m
\* (remainder rem pending, e fractional bits so far) until it has FloatDigits
\* significant bits, eight bits at a time while there is room, then one.
RECURSIVE QuotientBits(_, _, _)
QuotientBits(m, rem, e) ==
    IF m >= 2 ^ (FloatDigits - 1)
    THEN [m |-> m, rem |-> rem, e |-> e]
    ELSE IF m < 2 ^ (FloatDigits - 9)
    THEN QuotientBits(256 * m + (256 * rem) \div kPicosecondsPerNanosecond,
                      (256 * rem) % kPicosecondsPerNanosecond, e + 8)
    ELSE QuotientBits(2 * m + (2 * rem) \div kPicosecondsPerNanosecond,
                      (2 * rem) % kPicosecondsPerNanosecond, e + 1)

\* float / kPicosecondsPerNanosecond for a float holding the integer x:
\* the correctly rounded binary32 quotient.
FloatDivNs(x) ==
    IF x = 0 THEN [m |-> 0, e |-> 0]
    ELSE
    LET a == Abs(x)
        n == QuotientBits(a \div kPicosecondsPerNanosecond,
                          a % kPicosecondsPerNanosecond, 0)
        up == (2 * n.rem > kPicosecondsPerNanosecond)
              \/ (2 * n.rem = kPicosecondsPerNanosecond /\ n.m % 2 = 1)
        m == IF up THEN n.m + 1 ELSE n.m
    IN  IF m = 2 ^ FloatDigits
        THEN [m |-> Sgn(x) * 2 ^ (FloatDigits - 1), e |-> n.e - 1]
        ELSE [m |-> Sgn(x) * m, e |-> n.e]

\* static_cast<float>(delayPs) / kPicosecondsPerNanosecond
DelayNs(delayPs) == FloatDivNs(FloatFromInt(delayPs))

\* std::llround(static_cast<double>(x) * 1000.0): the product of a 24-bit
\* significand and 1000 is exact in a double; llround rounds half away from 0.
\* 1000 / 2^e is taken as 125 / 2^(e-3) to stay inside machine integers.
NsToPs(f) ==
    LET a == Abs(f.m) * (kPicosecondsPerNanosecond \div 8)
    IN  IF f.e < 3 THEN Sgn(f.m) * a * 2 ^ (3 - f.e)
        ELSE LET den == 2 ^ (f.e - 3)
                 fl == a \div den
                 r == a % den
             IN  Sgn(f.m) * (IF 2 * r >= den THEN fl + 1 ELSE fl)

\* ------------------------------------------------------------- buildConfig

\* Fault variant of buildConfig: the end < start case is tested before the
\* step, so a non-positive step passes when the range is empty.
buildConfigEndFirst(delayStartPs, delayEndPs, delayStepPs) ==
    IF delayEndPs < delayStartPs
    THEN [threw |-> FALSE, startPs |-> delayStartPs, endPs |-> delayEndPs,
          stepPs |-> delayStepPs, steps |-> 0]
    ELSE IF delayStepPs <= 0
    THEN [threw |-> TRUE, startPs |-> 0, endPs |-> 0, stepPs |-> 0, steps |-> 0]
    ELSE [threw |-> FALSE, startPs |-> delayStartPs, endPs |-> delayEndPs,
          stepPs |-> delayStepPs,
          steps |-> CppDiv(delayEndPs - delayStartPs, delayStepPs) + 1]

\* DelayScanConfig, or the std::invalid_argument it throws.
buildConfig(delayStartPs, delayEndPs, delayStepPs) ==
    IF delayStepPs <= 0
    THEN [threw |-> TRUE, startPs |-> 0, endPs |-> 0, stepPs |-> 0, steps |-> 0]
    ELSE IF delayEndPs < delayStartPs
    THEN [threw |-> FALSE, startPs |-> delayStartPs, endPs |-> delayEndPs,
          stepPs |-> delayStepPs, steps |-> 0]
    ELSE [threw |-> FALSE, startPs |-> delayStartPs, endPs |-> delayEndPs,
          stepPs |-> delayStepPs,
          steps |-> CppDiv(delayEndPs - delayStartPs, delayStepPs) + 1]

\* ------------------------------------------- countCoincidencesWithDelay

\* The sweep's locals before the loop; `matched` lists the (i, j) it consumed.
SweepInit == [i |-> 0, j |-> 0, count |-> 0, matched |-> <<>>]

\* Fault variant of SweepStep: a match consumes the ch2 event only.
SweepStepKeepI(ch1, ch2, coincWindowPs, delayPs, st) ==
    LET diff == ch1[st.i + 1] - delayPs - ch2[st.j + 1]
    IN  IF diff < -coincWindowPs THEN [st EXCEPT !.i = @ + 1]
        ELSE IF diff > coincWindowPs THEN [st EXCEPT !.j = @ + 1]
        ELSE [i |-> st.i, j |-> st.j + 1, count |-> st.count + 1,
              matched |-> Append(st.matched, <<st.i, st.j>>)]

\* Fault variant of SweepStep: the upper edge of the window is excluded.
SweepStepOpenUpper(ch1, ch2, coincWindowPs, delayPs, st) ==
    LET diff == ch1[st.i + 1] - delayPs - ch2[st.j + 1]
    IN  IF diff < -coincWindowPs THEN [st EXCEPT !.i = @ + 1]
        ELSE IF diff >= coincWindowPs THEN [st EXCEPT !.j = @ + 1]
        ELSE [i |-> st.i + 1, j |-> st.j + 1, count |-> st.count + 1,
              matched |-> Append(st.matched, <<st.i, st.j>>)]

\* Fault variant of SweepStep: a ch2 event too early takes the ch1 event
\* with it.
SweepStepSkipBoth(ch1, ch2, coincWindowPs, delayPs, st) ==
    LET diff == ch1[st.i + 1] - delayPs - ch2[st.j + 1]
    IN  IF diff < -coincWindowPs THEN [st EXCEPT !.i = @ + 1]
        ELSE IF diff > coincWindowPs
        THEN [st EXCEPT !.i = @ + 1, !.j = @ + 1]
        ELSE [i |-> st.i + 1, j |-> st.j + 1, count |-> st.count + 1,
              matched |-> Append(st.matched, <<st.i, st.j>>)]

\* One iteration of the while loop.
SweepStep(ch1, ch2, coincWindowPs, delayPs, st) ==
    LET lowerBound == -coincWindowPs
        upperBound == coincWindowPs
        shifted == ch1[st.i + 1] - delayPs
        diff == shifted - ch2[st.j + 1]
    IN  IF diff < lowerBound THEN [st EXCEPT !.i = @ + 1]
        ELSE IF diff > upperBound THEN [st EXCEPT !.j = @ + 1]
        ELSE [i |-> st.i + 1, j |-> st.j + 1, count |-> st.count + 1,
              matched |-> Append(st.matched, <<st.i, st.j>>)]

RECURSIVE SweepLoop(_, _, _, _, _)
SweepLoop(ch1, ch2, coincWindowPs, delayPs, st) ==
    IF st.i < Len(ch1) /\ st.j < Len(ch2)
    THEN SweepLoop(ch1, ch2, coincWindowPs, delayPs,
                   SweepStep(ch1, ch2, coincWindowPs, delayPs, st))
    ELSE st

\* The final locals of the sweep; .count is the value returned.
SweepRun(ch1, ch2, coincWindowPs, delayPs) ==
    SweepLoop(ch1, ch2, coincWindowPs, delayPs, SweepInit)

countCoincidencesWithDelay(ch1, ch2, coincWindowPs, delayPs) ==
    SweepRun(ch1, ch2, coincWindowPs, delayPs).count

\* ------------------------------------------ computeCoincidencesForRange

\* while (jLo < channel2.size() && channel2[jLo] < lowCut) ++jLo;
RECURSIVE AdvanceLo(_, _, _)
AdvanceLo(channel2, jLo, lowCut) ==
    IF jLo < Len(channel2) /\ channel2[jLo + 1] < lowCut
    THEN AdvanceLo(channel2, jLo + 1, lowCut)
    ELSE jLo

\* while (jHi < channel2.size() && channel2[jHi] <= highCut) ++jHi;
RECURSIVE AdvanceHi(_, _, _)
AdvanceHi(channel2, jHi, highCut) ==
    IF jHi < Len(channel2) /\ channel2[jHi + 1] <= highCut
    THEN AdvanceHi(channel2, jHi + 1, highCut)
    ELSE jHi

\* Fault variant of IdxStart: rounds the interval start down to the grid.
IdxStartFloor(offsetStart, stepPs) == CppDiv(offsetStart, stepPs)

\* First grid index whose delay is >= the clipped interval start.
IdxStart(offsetStart, stepPs) == CppDiv(offsetStart + stepPs - 1, stepPs)

\* Last grid index whose delay is <= the clipped interval end.
IdxEnd(offsetEnd, stepPs) == CppDiv(offsetEnd, stepPs)

\* Body of the inner loop for one pair (t1, channel2[j]): the difference
\* array after the pair's delay interval has been recorded (or skipped).
AddPair(diff, config, coincWindowPs, t1, t2) ==
    LET diffCenter == t1 - t2
        intervalStart == diffCenter - coincWindowPs
        intervalEnd == diffCenter + coincWindowPs
        clipStart == StdMax(intervalStart, config.startPs)
        clipEnd == StdMin(intervalEnd, config.endPs)
        idxStart == IdxStart(clipStart - config.startPs, config.stepPs)
        idxEnd == IdxEnd(clipEnd - config.startPs, config.stepPs)
    IN  IF intervalEnd < config.startPs \/ intervalStart > config.endPs
        THEN diff
        ELSE IF idxStart > idxEnd \/ idxEnd >= config.steps
        THEN diff
        ELSE LET d1 == [diff EXCEPT ![idxStart + 1] = @ + 1]
             IN  [d1 EXCEPT ![idxEnd + 2] = @ - 1]

\* for (size_t j = jLo; j < jHi; ++j) ...
RECURSIVE InnerLoop(_, _, _, _, _, _, _)
InnerLoop(diff, config, coincWindowPs, t1, channel2, j, jHi) ==
    IF j < jHi
    THEN InnerLoop(AddPair(diff, config, coincWindowPs, t1, channel2[j + 1]),
                   config, coincWindowPs, t1, channel2, j + 1, jHi)
    ELSE diff

\* The scan's locals before the loop over channel1; i is the position of
\* the range-for in channel1.
ScanInit(config) ==
    [i |-> 0, jLo |-> 0, jHi |-> 0, diff |-> [k \in 1..(config.steps + 1) |-> 0]]

\* Fault variant of ScanStep: jLo also passes the events equal to lowCut.
ScanStepSkipEqual(channel1, channel2, coincWindowPs, config, st) ==
    LET t1 == channel1[st.i + 1]
        minNeeded == config.startPs - coincWindowPs
        maxNeeded == config.endPs + coincWindowPs
        lowCut == t1 - maxNeeded
        jLo == AdvanceLo(channel2, st.jLo, lowCut + 1)
        highCut == t1 - minNeeded
        jHi == AdvanceHi(channel2, IF st.jHi < jLo THEN jLo ELSE st.jHi, highCut)
    IN  [i |-> st.i + 1, jLo |-> jLo, jHi |-> jHi,
         diff |-> InnerLoop(st.diff, config, coincWindowPs, t1, channel2, jLo, jHi)]

\* One iteration of the loop over channel1, for the event t1 = channel1[i].
ScanStep(channel1, channel2, coincWindowPs, config, st) ==
    LET t1 == channel1[st.i + 1]
        minNeeded == config.startPs - coincWindowPs
        maxNeeded == config.endPs + coincWindowPs
        lowCut == t1 - maxNeeded
        jLo == AdvanceLo(channel2, st.jLo, lowCut)
        highCut == t1 - minNeeded
        jHi == AdvanceHi(channel2, IF st.jHi < jLo THEN jLo ELSE st.jHi, highCut)
    IN  [i |-> st.i + 1, jLo |-> jLo, jHi |-> jHi,
         diff |-> InnerLoop(st.diff, config, coincWindowPs, t1, channel2, jLo, jHi)]

RECURSIVE ScanLoop(_, _, _, _, _)
ScanLoop(channel1, channel2, coincWindowPs, config, st) ==
    IF st.i < Len(channel1)
    THEN ScanLoop(channel1, channel2, coincWindowPs, config,
                  ScanStep(channel1, channel2, coincWindowPs, config, st))
    ELSE st

\* The scan's locals after the first n iterations of the loop over channel1.
RECURSIVE ScanAfter(_, _, _, _, _)
ScanAfter(channel1, channel2, coincWindowPs, config, n) ==
    IF n = 0 THEN ScanInit(config)
    ELSE ScanStep(channel1, channel2, coincWindowPs, config,
                  ScanAfter(channel1, channel2, coincWindowPs, config, n - 1))

\* The prefix-sum loop over idx = lo..hi (0-based), entered with `running`:
\* the entries it writes, (delay in ns as a float, running count).  The
\* range is walked by halves, in order, to keep the evaluation shallow.
RECURSIVE PrefixLoop(_, _, _, _, _)
PrefixLoop(config, diff, lo, hi, running) ==
    IF lo > hi THEN <<>>
    ELSE IF lo = hi
    THEN <<[first |-> DelayNs(config.startPs + lo * config.stepPs),
            second |-> running + diff[lo + 1]]>>
    ELSE LET mid == (lo + hi) \div 2
             left == PrefixLoop(config, diff, lo, mid, running)
         IN  left \o PrefixLoop(config, diff, mid + 1, hi, left[Len(left)].second)

\* results after the prefix-sum loop.
PrefixSum(config, diff) == PrefixLoop(config, diff, 0, config.steps - 1, 0)

\* The early exit for an empty channel: every grid delay with count 0.
ZeroResults(config) ==
    [k \in 1..config.steps |->
        [first |-> DelayNs(config.startPs + (k - 1) * config.stepPs),
         second |-> 0]]

\* The outcome of computeCoincidencesForRange: whether it threw, and the
\* content of `results` when it returns or unwinds (cleared before the throw).
computeCoincidencesForRange(channel1, channel2, coincWindowPs, delayStartPs, delayEndPs, delayStepPs) ==
    LET config == buildConfig(delayStartPs, delayEndPs, delayStepPs)
    IN  IF config.threw THEN [threw |-> TRUE, results |-> <<>>]
        ELSE IF config.steps = 0 THEN [threw |-> FALSE, results |-> <<>>]
        ELSE IF channel1 = <<>> \/ channel2 = <<>>
        THEN [threw |-> FALSE, results |-> ZeroResults(config)]
        ELSE [threw |-> FALSE,
              results |-> PrefixSum(config,
                  ScanLoop(channel1, channel2, coincWindowPs, config,
                           ScanInit(config)).diff)]

\* ---------------------------------------------- findBestDelayPicoseconds

\* Body of the loop over the scan's entries: a strictly larger count
\* replaces the best so far, whose delay is read back from the float.
BestStep(best, entry) ==
    IF entry.second > best.bestCount
    THEN [bestCount |-> entry.second, bestDelayPs |-> NsToPs(entry.first)]
    ELSE best

\* The loop over entries lo..hi (1-based) in order, starting from `best`;
\* the range is walked by halves, the left half evaluated first (the test
\* on left.bestCount is always true and only fixes that order), to keep the
\* evaluation shallow.
RECURSIVE BestLoop(_, _, _, _)
BestLoop(res, lo, hi, best) ==
    IF lo > hi THEN best
    ELSE IF lo = hi THEN BestStep(best, res[lo])
    ELSE LET mid == (lo + hi) \div 2
             left == BestLoop(res, lo, mid, best)
         IN  IF left.bestCount >= IntMin
             THEN BestLoop(res, mid + 1, hi, left)
             ELSE left

\* The outcome of findBestDelayPicoseconds: thrown flag, returned delay and
\* the scan written through scratchResults.
findBestDelayPicoseconds(reference, target, coincWindowPs, delayStartPs, delayEndPs, delayStepPs) ==
    LET scan == computeCoincidencesForRange(reference, target, coincWindowPs,
                    delayStartPs, delayEndPs, delayStepPs)
        best == BestLoop(scan.results, 1, Len(scan.results),
                    [bestCount |-> IntMin, bestDelayPs |-> delayStartPs])
    IN  [threw |-> scan.threw, results |-> scan.results,
         ret |-> IF scan.threw THEN 0 ELSE best.bestDelayPs]

\* ------------------------------------------------ countNFoldCoincidences

\* channels[idx] shifted by its offset and tagged with idx (0-based).
TaggedChannel(channels, offsetsPs, idx) ==
    LET offset == IF offsetsPs = <<>> THEN 0 ELSE offsetsPs[idx + 1]
    IN  [k \in 1..Len(channels[idx + 1]) |->
            [timestamp |-> channels[idx + 1][k] + offset, channelIdx |-> idx]]

\* merged as the push_back loop leaves it: channel after channel.
RECURSIVE MergedUpTo(_, _, _)
MergedUpTo(channels, offsetsPs, n) ==
    IF n = 0 THEN <<>>
    ELSE MergedUpTo(channels, offsetsPs, n - 1)
         \o TaggedChannel(channels, offsetsPs, n - 1)

\* Positions of `rest` whose event no other remaining event must precede
\* under the comparator a.timestamp < b.timestamp; one position per
\* distinct event, since equal events are interchangeable.
Heads(merged, rest) ==
    {p \in rest :
        /\ \A q \in rest : ~(merged[q].timestamp < merged[p].timestamp)
        /\ \A q \in rest : (q < p) => merged[q] # merged[p]}

\* Every order std::sort may leave the events at positions `rest` in: the
\* comparator looks at the timestamp alone and std::sort is not stable, so
\* events of different channels with equal timestamps may come out either way.
RECURSIVE SortOutcomes(_, _)
SortOutcomes(merged, rest) ==
    IF rest = {} THEN {<<>>}
    ELSE UNION {{<<merged[p]>> \o tail : tail \in SortOutcomes(merged, rest \ {p})} :
                p \in Heads(merged, rest)}

\* The sweep's locals before the loop over right.
NFoldInit(K) ==
    [right |-> 0, left |-> 0, have |-> 0, coincidences |-> 0,
     freq |-> [k \in 1..K |-> 0]]

\* The while loop that drops events more than coincWindowPs before merged[right].
RECURSIVE Shrink(_, _, _, _)
Shrink(merged, coincWindowPs, right, st) ==
    IF merged[right + 1].timestamp - merged[st.left + 1].timestamp > coincWindowPs
       /\ st.left < right
    THEN LET lidx == merged[st.left + 1].channelIdx
             f == st.freq[lidx + 1] - 1
         IN  Shrink(merged, coincWindowPs, right,
                    [st EXCEPT !.freq[lidx + 1] = f,
                               !.have = IF f = 0 THEN @ - 1 ELSE @,
                               !.left = @ + 1])
    ELSE st

\* Fault variant of Record: counts the coincidence and leaves merged[left]
\* in the window.
RecordKeepLeft(merged, K, st) ==
    IF st.have = K THEN [st EXCEPT !.coincidences = @ + 1] ELSE st

\* if (have == channels.size()) { ++coincidences; drop merged[left]; }
Record(merged, K, st) ==
    IF st.have = K
    THEN LET lidx == merged[st.left + 1].channelIdx
             f == st.freq[lidx + 1] - 1
         IN  [st EXCEPT !.coincidences = @ + 1,
                        !.freq[lidx + 1] = f,
                        !.have = IF f = 0 THEN @ - 1 ELSE @,
                        !.left = @ + 1]
    ELSE st

\* Fault variant of NFoldStep: expired events are never dropped.
NFoldStepNoShrink(merged, K, coincWindowPs, st) ==
    LET idx == merged[st.right + 1].channelIdx
        f == st.freq[idx + 1] + 1
        added == [st EXCEPT !.freq[idx + 1] = f,
                            !.have = IF f = 1 THEN @ + 1 ELSE @]
    IN  [Record(merged, K, added) EXCEPT !.right = @ + 1]

\* Fault variant of NFoldTest: an `if` in place of the `while`, so at most
\* one expired event is dropped.
NFoldTestShrinkOnce(merged, K, coincWindowPs, st) ==
    LET idx == merged[st.right + 1].channelIdx
        f == st.freq[idx + 1] + 1
        added == [st EXCEPT !.freq[idx + 1] = f,
                            !.have = IF f = 1 THEN @ + 1 ELSE @]
        lidx == merged[added.left + 1].channelIdx
        g == added.freq[lidx + 1] - 1
    IN  IF merged[st.right + 1].timestamp - merged[added.left + 1].timestamp
               > coincWindowPs
           /\ added.left < st.right
        THEN [added EXCEPT !.freq[lidx + 1] = g,
                           !.have = IF g = 0 THEN @ - 1 ELSE @,
                           !.left = @ + 1]
        ELSE added

\* One iteration of the loop over right up to the test of have == K:
\* merged[right] added and the expired events dropped.
NFoldTest(merged, K, coincWindowPs, st) ==
    LET idx == merged[st.right + 1].channelIdx
        f == st.freq[idx + 1] + 1
        added == [st EXCEPT !.freq[idx + 1] = f,
                            !.have = IF f = 1 THEN @ + 1 ELSE @]
    IN  Shrink(merged, coincWindowPs, st.right, added)

\* One iteration of the loop over right.
NFoldStep(merged, K, coincWindowPs, st) ==
    [Record(merged, K, NFoldTest(merged, K, coincWindowPs, st))
        EXCEPT !.right = @ + 1]

\* The sweep's locals before the loop over right and after each of its
\* iterations, in order: `acc` holds them up to st, the last of them.
RECURSIVE NFoldTrace(_, _, _, _, _)
NFoldTrace(merged, K, coincWindowPs, st, acc) ==
    IF st.right < Len(merged)
    THEN LET next == NFoldStep(merged, K, coincWindowPs, st)
         IN  IF next.right > st.right /\ Len(acc) = st.right + 1
             THEN NFoldTrace(merged, K, coincWindowPs, next, Append(acc, next))
             ELSE acc
    ELSE acc

RECURSIVE NFoldLoop(_, _, _, _)
NFoldLoop(merged, K, coincWindowPs, st) ==
    IF st.right < Len(merged)
    THEN NFoldLoop(merged, K, coincWindowPs,
                   NFoldStep(merged, K, coincWindowPs, st))
    ELSE st

\* The sliding-window count over one sorted merge.
NFoldSweep(merged, K, coincWindowPs) ==
    NFoldLoop(merged, K, coincWindowPs, NFoldInit(K)).coincidences

\* The outcomes of countNFoldCoincidences: each is a throw or a returned
\* count; more than one when the sort leaves ties in different orders.
countNFoldCoincidences(channels, coincWindowPs, offsetsPs) ==
    IF Len(channels) < 2
    THEN {[threw |-> TRUE, ret |-> 0]}
    ELSE IF offsetsPs # <<>> /\ Len(offsetsPs) # Len(channels)
    THEN {[threw |-> TRUE, ret |-> 0]}
    ELSE IF Len(channels) = 2 /\ offsetsPs = <<>>
    THEN {[threw |-> FALSE,
           ret |-> countCoincidencesWithDelay(channels[1], channels[2],
                                              coincWindowPs, 0)]}
    ELSE LET merged == MergedUpTo(channels, offsetsPs, Len(channels))
         IN  IF Len(merged) = 0 THEN {[threw |-> FALSE, ret |-> 0]}
             ELSE {[threw |-> FALSE,
                    ret |-> NFoldSweep(sorted, Len(channels), coincWindowPs)] :
                   sorted \in SortOutcomes(merged, 1..Len(merged))}

\* ----------------------------------------------------------------- Singles

\* A default-constructed Singles.
EmptySingles == [channel |-> 0, baseSecond |-> 0, eventsPerSecond |-> <<>>]

\* n empty buckets.
EmptyBuckets(n) == [k \in 1..n |-> <<>>]

\* Fault variant of ensureSecond: prepending leaves baseSecond where it was.
ensureSecondNoShift(s, second) ==
    IF s.eventsPerSecond = <<>>
    THEN [singles |-> [s EXCEPT !.baseSecond = second,
                                !.eventsPerSecond = EmptyBuckets(1)],
          idx |-> 0]
    ELSE IF second < s.baseSecond
    THEN [singles |-> [s EXCEPT !.eventsPerSecond =
                                    EmptyBuckets(s.baseSecond - second) \o @],
          idx |-> 0]
    ELSE LET newSize == second - s.baseSecond + 1
             grown == IF newSize > Len(s.eventsPerSecond)
                      THEN s.eventsPerSecond
                           \o EmptyBuckets(newSize - Len(s.eventsPerSecond))
                      ELSE s.eventsPerSecond
         IN  [singles |-> [s EXCEPT !.eventsPerSecond = grown],
              idx |-> second - s.baseSecond]

\* ensureSecond: the Singles after the call, and the 0-based index of the
\* bucket the returned reference designates.
ensureSecond(s, second) ==
    IF s.eventsPerSecond = <<>>
    THEN [singles |-> [s EXCEPT !.baseSecond = second,
                                !.eventsPerSecond = EmptyBuckets(1)],
          idx |-> 0]
    ELSE IF second < s.baseSecond
    THEN LET prepend == s.baseSecond - second
         IN  [singles |-> [s EXCEPT !.baseSecond = second,
                                    !.eventsPerSecond =
                                        EmptyBuckets(prepend) \o @],
              idx |-> 0]
    ELSE LET maxSecond == s.baseSecond + Len(s.eventsPerSecond) - 1
             newSize == second - s.baseSecond + 1
             grown == IF second > maxSecond
                      THEN s.eventsPerSecond
                           \o EmptyBuckets(newSize - Len(s.eventsPerSecond))
                      ELSE s.eventsPerSecond
         IN  [singles |-> [s EXCEPT !.eventsPerSecond = grown],
              idx |-> second - s.baseSecond]

\* eventsForSecond: the bucket for `second`, or the static empty one.
eventsForSecond(s, second) ==
    IF s.eventsPerSecond = <<>> \/ second < s.baseSecond
    THEN <<>>
    ELSE LET idx == second - s.baseSecond
         IN  IF idx < Len(s.eventsPerSecond)
             THEN s.eventsPerSecond[idx + 1]
             ELSE <<>>

\* bucketIndex of ReadCSV.cpp for a positive bucket width.
bucketIndex(ts, firstTimestamp, bucketWidthPs) ==
    CppDiv(ts - firstTimestamp, bucketWidthPs)

\* std::upper_bound: the number of elements of the sorted bucket <= ts.
UpperBound(bucket, ts) == Cardinality({k \in 1..Len(bucket) : bucket[k] <= ts})

\* appendTimestamp: ts put into the bucket of `second`, kept sorted.
appendTimestamp(s, second, ts) ==
    LET e == ensureSecond(s, second)
        bucket == e.singles.eventsPerSecond[e.idx + 1]
        pos == UpperBound(bucket, ts)
        filled == IF bucket # <<>> /\ ts < bucket[Len(bucket)]
                  THEN SubSeq(bucket, 1, pos) \o <<ts>>
                       \o SubSeq(bucket, pos + 1, Len(bucket))
                  ELSE Append(bucket, ts)
    IN  [e.singles EXCEPT !.eventsPerSecond[e.idx + 1] = filled]

\* The Singles the reader builds for one channel from its timestamps
\* stream[1..n], taken relative to the first timestamp of the file.
RECURSIVE ReadSingles(_, _, _, _)
ReadSingles(channel, stream, bucketWidthPs, n) ==
    IF n = 0 THEN [EmptySingles EXCEPT !.channel = channel]
    ELSE appendTimestamp(ReadSingles(channel, stream, bucketWidthPs, n - 1),
                         bucketIndex(stream[n], 0, bucketWidthPs), stream[n])

\* The state of the loop of readCSVtoSingles before any line: no first
\* timestamp yet, and the Singles of the channel empty.
ReadInit(channel) ==
    [first |-> TRUE, firstTimestamp |-> 0,
     singles |-> [EmptySingles EXCEPT !.channel = channel]]

\* One line of the file with raw timestamp ts for the channel: a line with
\* ts = 0 is skipped; the first valid ts becomes firstTimestamp.
ReadLine(st, ts, bucketWidthPs) ==
    IF ts = 0 THEN st
    ELSE LET firstTimestamp == IF st.first THEN ts ELSE st.firstTimestamp
             sec == bucketIndex(ts, firstTimestamp, bucketWidthPs)
         IN  [first |-> FALSE, firstTimestamp |-> firstTimestamp,
              singles |-> appendTimestamp(st.singles, sec, ts - firstTimestamp)]

\* The loop of readCSVtoSingles over the lines stream[1..n] of one channel.
RECURSIVE ReadLines(_, _, _, _)
ReadLines(channel, stream, bucketWidthPs, n) ==
    IF n = 0 THEN ReadInit(channel)
    ELSE ReadLine(ReadLines(channel, stream, bucketWidthPs, n - 1), stream[n],
                  bucketWidthPs)

\* readCSVtoSingles for a file whose lines all carry the channel: the loop
\* state at the end, with the Singles of the channel.
readCSVtoSingles(channel, stream, bucketWidthPs) ==
    ReadLines(channel, stream, bucketWidthPs, Len(stream))

\* -------------------------------------------------- appendNextFirstEvent

\* Fault variant of appendNextFirstEvent: the whole next bucket is appended.
appendNextBucket(currentSecond, nextSecond, scr) ==
    IF nextSecond = <<>>
    THEN [view |-> currentSecond, aliases |-> "currentSecond", scratch |-> scr,
          currentSecond |-> currentSecond, nextSecond |-> nextSecond]
    ELSE [view |-> currentSecond \o nextSecond, aliases |-> "scratch",
          scratch |-> currentSecond \o nextSecond,
          currentSecond |-> currentSecond, nextSecond |-> nextSecond]

\* appendNextFirstEvent: the elements of the returned span, the vector the
\* span points into, and the three vectors after the call.
appendNextFirstEvent(currentSecond, nextSecond, scr) ==
    IF nextSecond = <<>>
    THEN IF currentSecond = <<>>
         THEN [view |-> <<>>, aliases |-> "nothing", scratch |-> <<>>,
               currentSecond |-> currentSecond, nextSecond |-> nextSecond]
         ELSE [view |-> currentSecond, aliases |-> "currentSecond",
               scratch |-> scr,
               currentSecond |-> currentSecond, nextSecond |-> nextSecond]
    ELSE LET assigned == currentSecond
             pushed == Append(assigned, nextSecond[1])
         IN  [view |-> pushed, aliases |-> "scratch", scratch |-> pushed,
              currentSecond |-> currentSecond, nextSecond |-> nextSecond]

\* spanWithNext of CoincPairs.cpp.
spanWithNext(s, second, scr) ==
    appendNextFirstEvent(eventsForSecond(s, second),
                         eventsForSecond(s, second + 1), scr)

\* countAtDelay of CoincPairs.cpp: the sweep over the two bridged views
\* (its final locals), or no sweep when a view is empty.
countAtDelay(s1, s2, second, coincWindowPs, delayPs, scratch1, scratch2) ==
    LET span1 == spanWithNext(s1, second, scratch1)
        span2 == spanWithNext(s2, second, scratch2)
    IN  IF span1.view = <<>> \/ span2.view = <<>>
        THEN [ret |-> 0, matched |-> <<>>, span1 |-> span1, span2 |-> span2]
        ELSE LET run == SweepRun(span1.view, span2.view, coincWindowPs, delayPs)
             IN  [ret |-> run.count, matched |-> run.matched,
                  span1 |-> span1, span2 |-> span2]

\* One iteration of the loop over sec in main of CoincFinder.cpp: whether the
\* second was skipped, and mergedEvents and results after the iteration.
ScanSecond(singles1, singles2, sec, coincWindow, delayStartPs, delayEndPs, delayStepPs, mergedEvents, res) ==
    LET events1 == eventsForSecond(singles1, sec)
        currentSecond == eventsForSecond(singles2, sec)
        nextSecond == eventsForSecond(singles2, sec + 1)
        channel2Span == appendNextFirstEvent(currentSecond, nextSecond,
                                             mergedEvents)
    IN  IF events1 = <<>>
        THEN [skipped |-> TRUE, mergedEvents |-> mergedEvents, results |-> res,
              threw |-> FALSE]
        ELSE IF currentSecond = <<>> /\ nextSecond = <<>>
        THEN [skipped |-> TRUE, mergedEvents |-> mergedEvents, results |-> res,
              threw |-> FALSE]
        ELSE IF channel2Span.view = <<>>
        THEN [skipped |-> TRUE, mergedEvents |-> channel2Span.scratch,
              results |-> res, threw |-> FALSE]
        ELSE LET out == computeCoincidencesForRange(events1, channel2Span.view,
                            coincWindow, delayStartPs, delayEndPs, delayStepPs)
             IN  [skipped |-> FALSE, mergedEvents |-> channel2Span.scratch,
                  results |-> out.results, threw |-> out.threw]

\* The per-second loop of main in CoincPairs.cpp from sec to stopSec: the
\* count and the sweep's matches of every second, in order.
RECURSIVE CountSeconds(_, _, _, _, _, _, _, _)
CountSeconds(s1, s2, sec, stopSec, coincWindowPs, delayPs, scratch1, scratch2) ==
    IF sec > stopSec
    THEN [counts |-> <<>>, scratch1 |-> scratch1, scratch2 |-> scratch2]
    ELSE LET c == countAtDelay(s1, s2, sec, coincWindowPs, delayPs,
                               scratch1, scratch2)
             rest == CountSeconds(s1, s2, sec + 1, stopSec, coincWindowPs,
                                  delayPs, c.span1.scratch, c.span2.scratch)
         IN  [counts |-> <<[sec |-> sec, ret |-> c.ret, matched |-> c.matched]>>
                         \o rest.counts,
              scratch1 |-> rest.scratch1, scratch2 |-> rest.scratch2]

\* earliestSec and latestSec of main in CoincPairs.cpp over two channels
\* (at least one of them with buckets).
EarliestSec(s1, s2) ==
    IF s1.eventsPerSecond = <<>> THEN s2.baseSecond
    ELSE IF s2.eventsPerSecond = <<>> THEN s1.baseSecond
    ELSE StdMin(s1.baseSecond, s2.baseSecond)

LatestSec(s1, s2) ==
    LET last(s) == s.baseSecond + Len(s.eventsPerSecond) - 1
    IN  IF s1.eventsPerSecond = <<>> THEN last(s2)
        ELSE IF s2.eventsPerSecond = <<>> THEN last(s1)
        ELSE StdMax(last(s1), last(s2))

\* An empty std::map.
EmptyMap == [c \in {} |-> EmptySingles]

\* LatestUnset stands for std::numeric_limits<long long>::min(), the value
\* latestSecond_ holds until a chunk arrives: below every slice index.
LatestUnset == IntMin

\* ---------------------------------------------------------- RollingSingles

\* std::map::operator[] / assignment: key k bound to v.
MapPut(m, k, v) == [c \in DOMAIN m \cup {k} |-> IF c = k THEN v ELSE m[c]]

\* Fault variant of prune: erases the old buckets of a straddling channel
\* but leaves its baseSecond where it was.
pruneKeepBase(rs) ==
    IF rs.latestSecond_ = LatestUnset THEN rs
    ELSE LET minSecond == rs.latestSecond_ - rs.windowSeconds_ + 1
             Pruned(s) ==
                 IF s.eventsPerSecond = <<>> THEN s
                 ELSE LET maxSecond == s.baseSecond + Len(s.eventsPerSecond) - 1
                          dropCount == minSecond - s.baseSecond
                      IN  IF maxSecond < minSecond THEN s
                          ELSE IF s.baseSecond >= minSecond THEN s
                          ELSE [s EXCEPT
                                   !.eventsPerSecond =
                                       SubSeq(@, dropCount + 1, Len(@))]
         IN  [rs EXCEPT !.channels_ =
                            [c \in DOMAIN rs.channels_ |->
                                Pruned(rs.channels_[c])]]

\* RollingSingles::prune on the members rs.
prune(rs) ==
    IF rs.latestSecond_ = LatestUnset THEN rs
    ELSE LET minSecond == rs.latestSecond_ - rs.windowSeconds_ + 1
             Pruned(s) ==
                 IF s.eventsPerSecond = <<>> THEN s
                 ELSE LET maxSecond == s.baseSecond + Len(s.eventsPerSecond) - 1
                          dropCount == minSecond - s.baseSecond
                      IN  IF maxSecond < minSecond THEN s
                          ELSE IF s.baseSecond >= minSecond THEN s
                          ELSE IF dropCount <= 0 THEN s
                          ELSE IF dropCount >= Len(s.eventsPerSecond)
                          THEN [s EXCEPT !.eventsPerSecond = <<>>]
                          ELSE [s EXCEPT
                                   !.eventsPerSecond =
                                       SubSeq(@, dropCount + 1, Len(@)),
                                   !.baseSecond = minSecond]
         IN  [rs EXCEPT !.channels_ =
                            [c \in DOMAIN rs.channels_ |->
                                Pruned(rs.channels_[c])]]

\* The loop over idx in appendChunk, from bucket idx (0-based) on: the
\* target Singles and latestSecond_ after it.
RECURSIVE MergeBuckets(_, _, _, _)
MergeBuckets(target, latest, incoming, idx) ==
    IF idx >= Len(incoming.eventsPerSecond)
    THEN [target |-> target, latestSecond_ |-> latest]
    ELSE LET second == incoming.baseSecond + idx
             e == ensureSecond(target, second)
             src == incoming.eventsPerSecond[idx + 1]
             filled == [e.singles EXCEPT
                           !.eventsPerSecond[e.idx + 1] = @ \o src]
         IN  MergeBuckets(filled, StdMax(latest, second), incoming, idx + 1)

\* Fault variant of AppendEntry: raises latestSecond_ once, to the first
\* slice of the entry, instead of to every slice inside the loop.
AppendEntryFirstSlice(rs, channel, incoming) ==
    IF incoming.eventsPerSecond = <<>> THEN rs
    ELSE LET found == IF channel \in DOMAIN rs.channels_
                      THEN rs.channels_[channel]
                      ELSE EmptySingles
             target == IF found.eventsPerSecond = <<>>
                       THEN [found EXCEPT !.channel = incoming.channel]
                       ELSE found
             merged == MergeBuckets(target, rs.latestSecond_, incoming, 0)
         IN  [rs EXCEPT
                 !.channels_ = MapPut(@, channel, merged.target),
                 !.latestChunks_ = MapPut(@, channel, incoming.eventsPerSecond),
                 !.latestSecond_ = StdMax(@, incoming.baseSecond)]

\* The body of the loop over the entries of the chunk, for one entry.
AppendEntry(rs, channel, incoming) ==
    IF incoming.eventsPerSecond = <<>> THEN rs
    ELSE LET found == IF channel \in DOMAIN rs.channels_
                      THEN rs.channels_[channel]
                      ELSE EmptySingles
             target == IF found.eventsPerSecond = <<>>
                       THEN [found EXCEPT !.channel = incoming.channel]
                       ELSE found
             merged == MergeBuckets(target, rs.latestSecond_, incoming, 0)
         IN  [rs EXCEPT
                 !.channels_ = MapPut(@, channel, merged.target),
                 !.latestChunks_ = MapPut(@, channel, incoming.eventsPerSecond),
                 !.latestSecond_ = merged.latestSecond_]

\* The loop over the entries of the chunk whose keys are in `todo`, in key
\* order as std::map iterates.
RECURSIVE AppendEntries(_, _, _)
AppendEntries(rs, chunk, todo) ==
    IF todo = {} THEN rs
    ELSE LET channel == CHOOSE c \in todo : \A d \in todo : c <= d
         IN  AppendEntries(AppendEntry(rs, channel, chunk[channel]), chunk,
                           todo \ {channel})

\* RollingSingles::appendChunk.
appendChunk(rs, chunk) == prune(AppendEntries(rs, chunk, DOMAIN chunk))

\* Fault variant of setWindow: stores the length as given.
setWindowNoClamp(rs, seconds) ==
    prune([rs EXCEPT !.windowSeconds_ = seconds])

\* RollingSingles::setWindow.
setWindow(rs, seconds) ==
    prune([rs EXCEPT !.windowSeconds_ = StdMax(1, seconds)])

\* Fault variant of channelSingles: looks the channel up with operator[],
\* which inserts an entry for a missing channel.
channelSinglesInsert(rs, channel) ==
    [ret |-> IF channel \in DOMAIN rs.channels_
             THEN rs.channels_[channel] ELSE EmptySingles,
     rs |-> IF channel \in DOMAIN rs.channels_ THEN rs
            ELSE [rs EXCEPT !.channels_ = MapPut(@, channel, EmptySingles)]]

\* RollingSingles::channelSingles: the Singles referred to, and the members
\* after the call.
channelSingles(rs, channel) ==
    [ret |-> IF channel \in DOMAIN rs.channels_
             THEN rs.channels_[channel] ELSE EmptySingles,
     rs |-> rs]

\* RollingSingles::latestChunk: the buckets referred to, and the members
\* after the call.
latestChunk(rs, channel) ==
    [ret |-> IF channel \in DOMAIN rs.latestChunks_
             THEN rs.latestChunks_[channel] ELSE <<>>,
     rs |-> rs]

\* ------------------------------------------------- main of CoincPairs.cpp

\* samePairs and crossPairs as main defines them, before filtering.
SamePairs ==
    <<[ch1 |-> 1, ch2 |-> 5, label |-> "HH", delay_source |-> "HH"],
      [ch1 |-> 2, ch2 |-> 6, label |-> "VV", delay_source |-> "VV"],
      [ch1 |-> 3, ch2 |-> 7, label |-> "DD", delay_source |-> "DD"],
      [ch1 |-> 4, ch2 |-> 8, label |-> "AA", delay_source |-> "AA"]>>

CrossAxisPairs ==
    <<[ch1 |-> 1, ch2 |-> 6, label |-> "HV", delay_source |-> "HH"],
      [ch1 |-> 2, ch2 |-> 5, label |-> "VH", delay_source |-> "VV"],
      [ch1 |-> 3, ch2 |-> 8, label |-> "DA", delay_source |-> "DD"],
      [ch1 |-> 4, ch2 |-> 7, label |-> "AD", delay_source |-> "AA"]>>

\* A DelayInfo as default-constructed.
NoDelay == [delayPs |-> 0, delayNs |-> [ps |-> 0, per |-> 1000], valid |-> FALSE]

\* bestDelayForPair: delayNs is delayPs / 1000.0, kept as the fraction.
bestDelayForPair(s1, s2, second, coincWindowPs, delayStartPs, delayEndPs, delayStepPs) ==
    LET span1 == spanWithNext(s1, second, <<>>).view
        span2 == spanWithNext(s2, second, <<>>).view
    IN  IF span1 = <<>> \/ span2 = <<>> THEN NoDelay
        ELSE LET delayPs == findBestDelayPicoseconds(span1, span2,
                                coincWindowPs, delayStartPs, delayEndPs,
                                delayStepPs).ret
             IN  [delayPs |-> delayPs,
                  delayNs |-> [ps |-> delayPs, per |-> 1000],
                  valid |-> TRUE]

\* earliestSec and latestSec of main over the channels with buckets.
EarliestOf(singlesMap) ==
    LET withData == {c \in DOMAIN singlesMap :
                        singlesMap[c].eventsPerSecond # <<>>}
    IN  CHOOSE e \in {singlesMap[c].baseSecond : c \in withData} :
            \A c \in withData : e <= singlesMap[c].baseSecond

LatestOf(singlesMap) ==
    LET withData == {c \in DOMAIN singlesMap :
                        singlesMap[c].eventsPerSecond # <<>>}
        last(c) == singlesMap[c].baseSecond
                   + Len(singlesMap[c].eventsPerSecond) - 1
    IN  CHOOSE l \in {last(c) : c \in withData} :
            \A c \in withData : last(c) <= l

\* filterPairs: the pairs whose two channels are in the map.
filterPairs(pairs, singlesMap) ==
    SelectSeq(pairs, LAMBDA p : p.ch1 \in DOMAIN singlesMap
                                /\ p.ch2 \in DOMAIN singlesMap)

\* The map `delays` after the loop over the first n same pairs: the valid
\* delay of each, taken at startSec.
RECURSIVE BestDelays(_, _, _, _, _)
BestDelays(samePairs, n, singlesMap, startSec, p) ==
    IF n = 0 THEN [l \in {} |-> NoDelay]
    ELSE LET before == BestDelays(samePairs, n - 1, singlesMap, startSec, p)
             pair == samePairs[n]
             d == bestDelayForPair(singlesMap[pair.ch1], singlesMap[pair.ch2],
                                   startSec, p.coincWindowPs, p.delayStartPs,
                                   p.delayEndPs, p.delayStepPs)
         IN  IF d.valid THEN MapPut(before, pair.label, d) ELSE before

\* Fault variant of DelayOf: looks the delay up under the pair's own label.
DelayOfLabel(delays, pair) ==
    IF pair.label \in DOMAIN delays THEN delays[pair.label] ELSE NoDelay

\* delays.find(p.delay_source): the entry found, or an invalid DelayInfo
\* when there is none.
DelayOf(delays, pair) ==
    IF pair.delay_source \in DOMAIN delays
    THEN delays[pair.delay_source] ELSE NoDelay

\* The rows written for second sec by the loop over the first n pairs of
\* allPairs; a row also records the delay handed to countAtDelay.
RECURSIVE RowsOfPairs(_, _, _, _, _, _)
RowsOfPairs(allPairs, n, sec, singlesMap, delays, p) ==
    IF n = 0 THEN <<>>
    ELSE LET before == RowsOfPairs(allPairs, n - 1, sec, singlesMap, delays, p)
             pair == allPairs[n]
             d == DelayOf(delays, pair)
         IN  IF ~d.valid THEN before
             ELSE Append(before,
                     [second |-> sec, pair |-> pair.label,
                      delay_ns |-> d.delayNs, delayPs |-> d.delayPs,
                      coincidences |->
                          countAtDelay(singlesMap[pair.ch1],
                                       singlesMap[pair.ch2], sec,
                                       p.coincWindowPs, d.delayPs,
                                       <<>>, <<>>).ret])

\* The rows written by the loop over sec from sec to stopSec.
RECURSIVE RowsOfSeconds(_, _, _, _, _, _)
RowsOfSeconds(allPairs, sec, stopSec, singlesMap, delays, p) ==
    IF sec > stopSec THEN <<>>
    ELSE RowsOfPairs(allPairs, Len(allPairs), sec, singlesMap, delays, p)
         \o RowsOfSeconds(allPairs, sec + 1, stopSec, singlesMap, delays, p)

\* An exit of main with status 1 before the report is opened.
PairsFailed(startSec, stopSec) ==
    [status |-> 1, startSec |-> startSec, stopSec |-> stopSec,
     delays |-> [l \in {} |-> NoDelay], rows |-> <<>>]

\* main of CoincPairs.cpp without --dump-events, on the map the reader
\* returned and the parameters p (the delays already in picoseconds): the
\* exit status, the clamped seconds, the map `delays` and the rows written.
CoincPairsMain(singlesMap, p) ==
    IF \/ p.coincWindowPs <= 0 \/ p.delayStepPs <= 0
       \/ p.delayEndPs < p.delayStartPs
       \/ p.startSec < 0 \/ p.stopSec < 0 \/ p.startSec > p.stopSec
    THEN PairsFailed(p.startSec, p.stopSec)
    ELSE IF \A c \in DOMAIN singlesMap : singlesMap[c].eventsPerSecond = <<>>
    THEN PairsFailed(p.startSec, p.stopSec)
    ELSE LET startSec == StdMax(p.startSec, EarliestOf(singlesMap))
             stopSec == StdMin(p.stopSec, LatestOf(singlesMap))
             samePairs == filterPairs(SamePairs, singlesMap)
             crossPairs == filterPairs(CrossAxisPairs, singlesMap)
             delays == BestDelays(samePairs, Len(samePairs), singlesMap,
                                  startSec, p)
         IN  IF startSec > stopSec THEN PairsFailed(startSec, stopSec)
             ELSE IF samePairs = <<>> THEN PairsFailed(startSec, stopSec)
             ELSE IF DOMAIN delays = {} THEN PairsFailed(startSec, stopSec)
             ELSE [status |-> 0, startSec |-> startSec, stopSec |-> stopSec,
                   delays |-> delays,
                   rows |-> RowsOfSeconds(samePairs \o crossPairs, startSec,
                                          stopSec, singlesMap, delays, p)]

\* The delay-scan driver before its parallel loop.
DriverIdle ==
    /\ workers = <<>>
    /\ files = <<>>
    /\ jobsDone = 0

\* The bridge, the Singles and the RollingSingles untouched.
StoreIdle ==
    /\ scratch = <<>>
    /\ singles = EmptySingles
    /\ channels_ = EmptyMap
    /\ latestChunks_ = EmptyMap
    /\ windowSeconds_ = 200
    /\ latestSecond_ = LatestUnset
    /\ nOps = 0
    /\ DriverIdle

\* ------------------------------------------------------------------ inputs

\* Sorted timestamp streams: every non-decreasing sequence of at most MaxLen
\* timestamps in 0..MaxTime (the buckets the readers produce are sorted).
Streams ==
    {s \in UNION {[1..n -> 0..MaxTime] : n \in 0..MaxLen} : IsSorted(s)}

\* Streams for a third N-fold channel: timestamps at the two ends of the range.
ThirdStreams == {s \in Streams : \A k \in 1..Len(s) : s[k] \in {0, MaxTime}}

\* Half-windows (w > 0).
Windows == {1, 2}

\* Delays for the fixed-delay sweep.
Delays == -2..2

\* Delay grids (start, end, step) with step > 0: steps that divide the span
\* and steps that do not, and empty grids (end < start).
ValidGrids ==
    {[start |-> g[1], end |-> g[1] + g[2], step |-> g[3]] :
        g \in {-2, 1} \X {3, 4} \X {1, 2, 3}}
    \cup {[start |-> 1, end |-> 0, step |-> 1], [start |-> -2, end |-> -4, step |-> 2]}

\* Grids with the invalid steps 0 and -1, with end >= start and end < start.
InvalidGrids ==
    {[start |-> g[1][1], end |-> g[1][2], step |-> g[2]] :
        g \in {<<-2, 2>>, <<1, 0>>} \X {0, -1}}

\* Grids beyond 16384 ns, where neighbouring picosecond delays share a float.
FarGrids ==
    {[start |-> 16384001, end |-> 16384005, step |-> 2],
     [start |-> -16384003, end |-> -16384001, step |-> 1]}

\* testHistogramMatchesNaive: ch1, ch2 = ch1 + 50.
TestCh1 == [k \in 1..5 |-> (k - 1) * 1000]

TestCh2 == [k \in 1..5 |-> (k - 1) * 1000 + 50]

\* testFindBestDelay: ref, target = ref + 1250.
TestRef == [k \in 1..30 |-> (k - 1) * 2000]

TestTarget == [k \in 1..30 |-> TestRef[k] + 1250]

\* testNFoldCounts: base, ch2 = base + 20, ch3 = base + 35.
TestBase == [k \in 1..10 |-> (k - 1) * 10000]

TestNFoldCh2 == [k \in 1..10 |-> TestBase[k] + 20]

TestNFoldCh3 == [k \in 1..10 |-> TestBase[k] + 35]

\* One event pair 16384004 ps apart.
FarCh1 == <<16384004>>

FarCh2 == <<0>>

\* The pairs of views a caller may hold: every pair of generic streams, the
\* tests' data sets in both orders, and the far pair.
ViewPairs ==
    (Streams \X Streams)
    \cup {<<TestCh1, TestCh2>>, <<TestCh2, TestCh1>>, <<TestRef, TestTarget>>,
          <<TestTarget, TestRef>>, <<TestBase, TestNFoldCh2>>, <<FarCh1, FarCh2>>}

\* Window and grid of a scan over the views (a, b): the tests' own
\* parameters for the tests' data, the generic ones otherwise.
ScanParams(a, b) ==
    IF <<a, b>> \in {<<TestCh1, TestCh2>>, <<TestCh2, TestCh1>>}
    THEN {[coincWindowPs |-> 100, delayStartPs |-> -200, delayEndPs |-> 200,
           delayStepPs |-> 50]}
    ELSE IF <<a, b>> \in {<<TestRef, TestTarget>>, <<TestTarget, TestRef>>}
    THEN {[coincWindowPs |-> 200, delayStartPs |-> -3000, delayEndPs |-> 3000,
           delayStepPs |-> 25]}
    ELSE IF <<a, b>> = <<TestBase, TestNFoldCh2>>
    THEN {[coincWindowPs |-> 100, delayStartPs |-> -40, delayEndPs |-> 40,
           delayStepPs |-> 20]}
    ELSE IF <<a, b>> = <<FarCh1, FarCh2>>
    THEN {[coincWindowPs |-> 1, delayStartPs |-> g.start, delayEndPs |-> g.end,
           delayStepPs |-> g.step] : g \in FarGrids}
    ELSE {[coincWindowPs |-> w, delayStartPs |-> g.start, delayEndPs |-> g.end,
           delayStepPs |-> g.step] : w \in Windows, g \in ValidGrids}
         \cup
         {[coincWindowPs |-> 1, delayStartPs |-> g.start, delayEndPs |-> g.end,
           delayStepPs |-> g.step] : g \in InvalidGrids \cup FarGrids}

\* Window and delay of a fixed-delay sweep over the views (a, b).
SweepParams(a, b) ==
    IF <<a, b>> \in {<<TestCh1, TestCh2>>, <<TestCh2, TestCh1>>}
    THEN {[coincWindowPs |-> 100, delayPs |-> -200 + 50 * k] : k \in 0..8}
    ELSE IF <<a, b>> \in {<<TestRef, TestTarget>>, <<TestTarget, TestRef>>}
    THEN {[coincWindowPs |-> 200, delayPs |-> d] : d \in {-1250, 1250}}
    ELSE IF <<a, b>> = <<TestBase, TestNFoldCh2>>
    THEN {[coincWindowPs |-> 100, delayPs |-> d] : d \in {-20, 0}}
    ELSE IF <<a, b>> = <<FarCh1, FarCh2>>
    THEN {[coincWindowPs |-> 1, delayPs |-> d] : d \in {16384003, 16384006}}
    ELSE {[coincWindowPs |-> w, delayPs |-> d] : w \in Windows, d \in Delays}

\* Offsets lists tried for K channels: none, all zero, a shift of the first
\* channel, and a list one too long.
OffsetsFor(K) ==
    {<<>>, [k \in 1..K |-> 0], [k \in 1..K |-> IF k = 1 THEN 1 ELSE 0],
     [k \in 1..(K + 1) |-> 0]}

\* Channel lists, window and offsets of an N-fold count built on the views
\* (a, b): no channel, a alone, the pair, and the pair with a third channel.
NFoldParams(a, b) ==
    IF <<a, b>> = <<TestBase, TestNFoldCh2>>
    THEN {[channels |-> c, coincWindowPs |-> 100, offsetsPs |-> <<>>] :
            c \in {<<a, b, TestNFoldCh3>>, <<a, b>>}}
    ELSE IF Len(a) > MaxLen \/ Len(b) > MaxLen \/ <<a, b>> = <<FarCh1, FarCh2>>
    THEN {[channels |-> <<a, b>>, coincWindowPs |-> 100, offsetsPs |-> o] :
            o \in {<<>>, <<0, 0>>}}
    ELSE {[channels |-> c, coincWindowPs |-> 1, offsetsPs |-> o] :
            c \in {<<>>, <<a>>}, o \in {<<>>, <<0>>}}
         \cup
         {[channels |-> <<a, b>>, coincWindowPs |-> w, offsetsPs |-> o] :
            w \in Windows, o \in OffsetsFor(2)}
         \cup
         {[channels |-> <<a, b, c>>, coincWindowPs |-> 1, offsetsPs |-> o] :
            c \in ThirdStreams, o \in {<<>>, <<0, 0>>}}

\* What the reused `results` vector holds before the call: the entries of an
\* earlier scan, longer than a generic grid and shorter than the tests' grids.
StaleResults == [k \in 1..6 |-> [first |-> DelayNs(1000 * k), second |-> k]]

NoArgs == [none |-> TRUE]

\* ----------------------------------------------------------- specification

Init ==
    /\ pc = "ready"
    /\ op = "none"
    /\ \E v \in ViewPairs : view1 = v[1] /\ view2 = v[2]
    /\ args = NoArgs
    /\ results = StaleResults
    /\ threw = FALSE
    /\ ret = 0
    /\ matches = <<>>
    /\ StoreIdle

CallCountCoincidencesWithDelay ==
    /\ pc = "ready"
    /\ \E p \in SweepParams(view1, view2) :
        \E run \in {SweepRun(view1, view2, p.coincWindowPs, p.delayPs)} :
            /\ args' = p
            /\ ret' = run.count
            /\ matches' = run.matched
    /\ op' = "countCoincidencesWithDelay"
    /\ pc' = "done"
    /\ UNCHANGED driverVars
    /\ UNCHANGED <<view1, view2, results, threw>>
    /\ UNCHANGED storeVars

CallComputeCoincidencesForRange ==
    /\ pc = "ready"
    /\ \E p \in ScanParams(view1, view2) :
        \E out \in {computeCoincidencesForRange(view1, view2, p.coincWindowPs,
                        p.delayStartPs, p.delayEndPs, p.delayStepPs)} :
            /\ args' = p
            /\ results' = out.results
            /\ threw' = out.threw
    /\ op' = "computeCoincidencesForRange"
    /\ pc' = "done"
    /\ UNCHANGED driverVars
    /\ UNCHANGED <<view1, view2, ret, matches>>
    /\ UNCHANGED storeVars

\* Called with scratchResults pointing at the caller's `results`.
CallFindBestDelayPicoseconds ==
    /\ pc = "ready"
    /\ \E p \in ScanParams(view1, view2) :
        \E out \in {findBestDelayPicoseconds(view1, view2, p.coincWindowPs,
                        p.delayStartPs, p.delayEndPs, p.delayStepPs)} :
            /\ args' = p
            /\ results' = out.results
            /\ threw' = out.threw
            /\ ret' = out.ret
    /\ op' = "findBestDelayPicoseconds"
    /\ pc' = "done"
    /\ UNCHANGED driverVars
    /\ UNCHANGED <<view1, view2, matches>>
    /\ UNCHANGED storeVars

CallCountNFoldCoincidences ==
    /\ pc = "ready"
    /\ \E p \in NFoldParams(view1, view2) :
        \E out \in countNFoldCoincidences(p.channels, p.coincWindowPs,
                                          p.offsetsPs) :
            /\ args' = p
            /\ threw' = out.threw
            /\ ret' = out.ret
    /\ op' = "countNFoldCoincidences"
    /\ pc' = "done"
    /\ UNCHANGED driverVars
    /\ UNCHANGED <<view1, view2, results, matches>>
    /\ UNCHANGED storeVars

Next ==
    \/ CallCountCoincidencesWithDelay
    \/ CallComputeCoincidencesForRange
    \/ CallFindBestDelayPicoseconds
    \/ CallCountNFoldCoincidences

Spec == Init /\ [][Next]_vars

\* ------------------------------------------- specification of the bridge

\* Width of a slice, in the picoseconds of the model.
SliceWidth == 3

\* Sorted streams of at most MaxLen timestamps over two slices.
BridgeStreams ==
    {s \in UNION {[1..n -> 0..(2 * SliceWidth - 1)] : n \in 0..MaxLen} :
        IsSorted(s)}

\* What the reused scratch vector holds before a call.
StaleScratch == {<<>>, <<7, 8, 9>>}

\* Delay grids of the per-second scan.
BridgeGrids ==
    {[delayStartPs |-> -2, delayEndPs |-> 2, delayStepPs |-> 1],
     [delayStartPs |-> -2, delayEndPs |-> 2, delayStepPs |-> 2],
     [delayStartPs |-> 0, delayEndPs |-> 1, delayStepPs |-> 1]}

\* The two channels as the reader buckets them.
Singles1 == ReadSingles(1, view1, SliceWidth, Len(view1))

Singles2 == ReadSingles(2, view2, SliceWidth, Len(view2))

InitBridge ==
    /\ pc = "ready"
    /\ op = "none"
    /\ view1 \in BridgeStreams
    /\ view2 \in BridgeStreams
    /\ args = NoArgs
    /\ results = StaleResults
    /\ threw = FALSE
    /\ ret = 0
    /\ matches = <<>>
    /\ scratch \in StaleScratch
    /\ singles = EmptySingles
    /\ channels_ = EmptyMap
    /\ latestChunks_ = EmptyMap
    /\ windowSeconds_ = 200
    /\ latestSecond_ = LatestUnset
    /\ nOps = 0
    /\ DriverIdle

\* spanWithNext on one channel; the returned span is left in ret.
CallAppendNextFirstEvent ==
    /\ pc = "ready"
    /\ \E channel \in {1, 2}, second \in -1..2 :
        LET s == IF channel = 1 THEN Singles1 ELSE Singles2
        IN  \E out \in {spanWithNext(s, second, scratch)} :
                /\ args' = [channel |-> channel, second |-> second,
                            currentSecond |-> eventsForSecond(s, second),
                            nextSecond |-> eventsForSecond(s, second + 1),
                            scratch |-> scratch, out |-> out]
                /\ ret' = out.view
                /\ scratch' = out.scratch
    /\ op' = "appendNextFirstEvent"
    /\ pc' = "done"
    /\ UNCHANGED driverVars
    /\ UNCHANGED <<view1, view2, results, threw, matches>>
    /\ UNCHANGED <<singles, channels_, latestChunks_, windowSeconds_,
                   latestSecond_, nOps>>

\* One second of the delay scan of CoincFinder.cpp, mergedEvents being the
\* scratch; ret tells whether the second was skipped.
CallScanSecond ==
    /\ pc = "ready"
    /\ \E sec \in 0..1, w \in Windows, g \in BridgeGrids :
        \E out \in {ScanSecond(Singles1, Singles2, sec, w, g.delayStartPs,
                                g.delayEndPs, g.delayStepPs, scratch, results)} :
            /\ args' = [sec |-> sec, coincWindowPs |-> w,
                        delayStartPs |-> g.delayStartPs,
                        delayEndPs |-> g.delayEndPs,
                        delayStepPs |-> g.delayStepPs]
            /\ results' = out.results
            /\ scratch' = out.mergedEvents
            /\ threw' = out.threw
            /\ ret' = out.skipped
    /\ op' = "ScanSecond"
    /\ pc' = "done"
    /\ UNCHANGED driverVars
    /\ UNCHANGED <<view1, view2, matches>>
    /\ UNCHANGED <<singles, channels_, latestChunks_, windowSeconds_,
                   latestSecond_, nOps>>

\* The per-second counts of CoincPairs.cpp over the seconds the data covers;
\* matches holds one record per second.
CallCountAtDelay ==
    /\ pc = "ready"
    /\ view1 # <<>> \/ view2 # <<>>
    /\ \E w \in Windows, d \in {-1, 0, 1} :
        \E out \in {CountSeconds(Singles1, Singles2,
                                  EarliestSec(Singles1, Singles2),
                                  LatestSec(Singles1, Singles2),
                                  w, d, scratch, <<>>)} :
            /\ args' = [coincWindowPs |-> w, delayPs |-> d]
            /\ matches' = out.counts
            /\ scratch' = out.scratch1
    /\ ret' = 0
    /\ op' = "countAtDelay"
    /\ pc' = "done"
    /\ UNCHANGED driverVars
    /\ UNCHANGED <<view1, view2, results, threw>>
    /\ UNCHANGED <<singles, channels_, latestChunks_, windowSeconds_,
                   latestSecond_, nOps>>

NextBridge ==
    \/ CallAppendNextFirstEvent
    \/ CallScanSecond
    \/ CallCountAtDelay

SpecBridge == InitBridge /\ [][NextBridge]_vars

\* ------------------------------------------------------ reference notions

Returned(f) == pc = "done" /\ op = f

\* Brute force: the index pairs (i, j) with |A[i] - d - B[j]| <= w.
CrossPairs(A, B, w, d) ==
    {q \in (1..Len(A)) \X (1..Len(B)) : Abs(A[q[1]] - d - B[q[2]]) <= w}

CrossCount(A, B, w, d) == Cardinality(CrossPairs(A, B, w, d))

\* floor((end - start) / step) + 1, the grid's point count when end >= start.
PointCount(start, end, step) == ((end - start) \div step) + 1

\* Grid indices 0..point_count-1 of the call's grid (none when end < start).
GridIndices ==
    IF args.delayEndPs < args.delayStartPs THEN {}
    ELSE 0..(PointCount(args.delayStartPs, args.delayEndPs, args.delayStepPs) - 1)

\* Delay of grid point k.
GridDelay(k) == args.delayStartPs + k * args.delayStepPs

\* f < g on floats.
FloatLess(f, g) ==
    LET PosLess(x, y) == x.e > y.e \/ (x.e = y.e /\ Abs(x.m) < Abs(y.m))
    IN  IF f.m < 0 THEN (g.m >= 0 \/ PosLess(g, f))
        ELSE IF f.m = 0 THEN g.m > 0
        ELSE g.m > 0 /\ PosLess(f, g)

\* At delay d no event of A is within w of two events of B, nor one of B
\* within w of two of A.
NotDoublyMatchable(A, B, w, d) ==
    LET P == CrossPairs(A, B, w, d)
    IN  \A p \in P, q \in P : (p[1] = q[1] \/ p[2] = q[2]) => p = q

\* The channels form n groups: the g-th events of all channels lie within w
\* of each other and more than w before every (g+1)-th event.
Grouped(channels, w) ==
    LET K == Len(channels)
        n == Len(channels[1])
    IN  /\ \A k \in 1..K : Len(channels[k]) = n
        /\ \A g \in 1..n : \A k \in 1..K, l \in 1..K :
               Abs(channels[k][g] - channels[l][g]) <= w
        /\ \A g \in 1..(n - 1) : \A k \in 1..K, l \in 1..K :
               channels[l][g + 1] - channels[k][g] > w

\* ------------------------------------------------------------------ claims

\* C1: the count computeCoincidencesForRange reports at grid point k is the
\* brute-force number of pairs (i, j) with |A[i] - (start + k*step) - B[j]| <= w.
C1_HistogramIsCrossCount ==
    (Returned("computeCoincidencesForRange") /\ ~threw) =>
        \A k \in GridIndices :
            /\ k + 1 \in DOMAIN results
            /\ results[k + 1].second =
                   CrossCount(view1, view2, args.coincWindowPs, GridDelay(k))

\* C1 witness: a scan whose span is no multiple of the step, with a pair's
\* delay interval clipped at the grid start and a point counting two pairs.
C1_Witness ==
    /\ Returned("computeCoincidencesForRange") /\ ~threw
    /\ args.delayEndPs > args.delayStartPs
    /\ (args.delayEndPs - args.delayStartPs) % args.delayStepPs # 0
    /\ \E i \in 1..Len(view1), j \in 1..Len(view2) :
           /\ view1[i] - view2[j] - args.coincWindowPs < args.delayStartPs
           /\ view1[i] - view2[j] + args.coincWindowPs >= args.delayStartPs
    /\ \E k \in 1..Len(results) : results[k].second >= 2

\* C2 (as claimed): results holds exactly floor((end - start)/step) + 1
\* entries when end >= start, whatever it held before, and entry k carries the
\* delay start + k*step, the delays strictly increasing.
C2_GridOrderClaim ==
    (Returned("computeCoincidencesForRange") /\ ~threw
        /\ args.delayEndPs >= args.delayStartPs) =>
        /\ Len(results) =
               PointCount(args.delayStartPs, args.delayEndPs, args.delayStepPs)
        /\ \A k \in GridIndices :
               k + 1 \in DOMAIN results /\ NsToPs(results[k + 1].first) = GridDelay(k)
        /\ \A k \in 1..(Len(results) - 1) :
               FloatLess(results[k].first, results[k + 1].first)

\* C3: invalid input is a failure, never a result: the scan and the best-delay
\* search throw for every step <= 0 (also when end < start) and leave no
\* entry in results; the N-fold count throws for fewer than two channels and
\* for a non-empty offsets list whose length is not the number of channels.
C3_InvalidInputThrows ==
    /\ ((Returned("computeCoincidencesForRange")
            \/ Returned("findBestDelayPicoseconds"))
        /\ args.delayStepPs <= 0) => (threw /\ results = <<>>)
    /\ (Returned("countNFoldCoincidences")
        /\ (Len(args.channels) < 2
            \/ (args.offsetsPs # <<>>
                /\ Len(args.offsetsPs) # Len(args.channels)))) => threw

\* C3 witness: a scan called with a non-positive step and end < start threw.
C3_Witness ==
    /\ Returned("computeCoincidencesForRange")
    /\ args.delayStepPs <= 0
    /\ args.delayEndPs < args.delayStartPs
    /\ threw

\* C4 (as claimed): with step > 0, end < start gives an empty result; an empty
\* view gives point_count entries with count zero; the sweep returns 0 when
\* a view is empty; and in both scan cases the best delay is the grid start.
C4_EmptyCasesClaim ==
    /\ ((Returned("computeCoincidencesForRange")
            \/ Returned("findBestDelayPicoseconds"))
        /\ args.delayStepPs > 0) =>
           /\ ~threw
           /\ (args.delayEndPs < args.delayStartPs) => results = <<>>
           /\ (args.delayEndPs >= args.delayStartPs
               /\ (view1 = <<>> \/ view2 = <<>>)) =>
                  /\ Len(results) = PointCount(args.delayStartPs,
                                        args.delayEndPs, args.delayStepPs)
                  /\ \A k \in 1..Len(results) : results[k].second = 0
    /\ (Returned("countCoincidencesWithDelay")
        /\ (view1 = <<>> \/ view2 = <<>>)) => ret = 0
    /\ (Returned("findBestDelayPicoseconds") /\ args.delayStepPs > 0
        /\ (args.delayEndPs < args.delayStartPs
            \/ view1 = <<>> \/ view2 = <<>>)) => ret = args.delayStartPs

\* C5: the fixed-delay sweep is a consuming sweep: every recorded match (i, j)
\* has |A[i] - d - B[j]| <= w, the matched indices increase strictly on both
\* sides (so no index is matched twice), and the count returned is the
\* number of matches, at most min(|A|, |B|).
C5_ConsumingSweep ==
    Returned("countCoincidencesWithDelay") =>
        /\ ret = Len(matches)
        /\ \A m \in 1..Len(matches) :
               /\ matches[m][1] \in 0..(Len(view1) - 1)
               /\ matches[m][2] \in 0..(Len(view2) - 1)
               /\ Abs(view1[matches[m][1] + 1] - args.delayPs
                      - view2[matches[m][2] + 1]) <= args.coincWindowPs
        /\ \A m \in 1..(Len(matches) - 1) :
               /\ matches[m][1] < matches[m + 1][1]
               /\ matches[m][2] < matches[m + 1][2]
        /\ ret <= StdMin(Len(view1), Len(view2))

\* C5 witness: a sweep at a non-zero delay that matched two pairs although an
\* event had two partners within the window.
C5_Witness ==
    /\ Returned("countCoincidencesWithDelay")
    /\ args.delayPs # 0
    /\ Len(matches) >= 2
    /\ ~NotDoublyMatchable(view1, view2, args.coincWindowPs, args.delayPs)

\* C6 (as claimed): the best delay is a grid delay start + k*step whose
\* histogram count is the maximum over the grid, the lowest such delay.
C6_BestDelayClaim ==
    (Returned("findBestDelayPicoseconds") /\ ~threw
        /\ args.delayEndPs >= args.delayStartPs) =>
        \E k \in GridIndices :
            /\ ret = GridDelay(k)
            /\ \A l \in GridIndices :
                   /\ results[l + 1].second <= results[k + 1].second
                   /\ (l < k) => results[l + 1].second < results[k + 1].second

\* C7 (as claimed): when the target is the reference shifted by a constant
\* that lies on the grid, the best delay is exactly that constant.
C7_RecoveryClaim ==
    (Returned("findBestDelayPicoseconds") /\ ~threw /\ view1 # <<>>
        /\ Len(view2) = Len(view1)) =>
        \A k \in GridIndices :
            (\A n \in 1..Len(view1) : view2[n] = view1[n] + GridDelay(k))
                => ret = GridDelay(k)

\* C8: at every grid delay d at which nothing is doubly matchable, the
\* histogram count equals countCoincidencesWithDelay(A, B, w, d); for the
\* data of testHistogramMatchesNaive that is every grid point.
C8_HistogramAgreesWithSweep ==
    (Returned("computeCoincidencesForRange") /\ ~threw) =>
        \A k \in GridIndices :
            (NotDoublyMatchable(view1, view2, args.coincWindowPs, GridDelay(k))
             \/ (view1 = TestCh1 /\ view2 = TestCh2))
            => results[k + 1].second =
                   countCoincidencesWithDelay(view1, view2, args.coincWindowPs,
                                              GridDelay(k))

\* C8 witness: a grid point with nothing doubly matchable at which two pairs
\* are counted.
C8_Witness ==
    /\ Returned("computeCoincidencesForRange") /\ ~threw
    /\ \E k \in GridIndices :
           /\ NotDoublyMatchable(view1, view2, args.coincWindowPs, GridDelay(k))
           /\ results[k + 1].second >= 2

\* C9 (as claimed): over two channels the N-fold count equals
\* countCoincidencesWithDelay(C1, C2, w, 0), with no offsets and with the
\* offsets (0, 0).
C9_ReductionClaim ==
    (Returned("countNFoldCoincidences") /\ ~threw /\ Len(args.channels) = 2
        /\ args.offsetsPs \in {<<>>, <<0, 0>>}) =>
        ret = countCoincidencesWithDelay(args.channels[1], args.channels[2],
                                         args.coincWindowPs, 0)

\* C10: when the channels form n groups (one event per channel in each, all
\* within w, consecutive groups more than w apart) the N-fold count is n; it
\* is 10 for the three channels of testNFoldCounts and for the first two.
C10_GroupedCount ==
    (Returned("countNFoldCoincidences") /\ ~threw
        /\ \A k \in 1..Len(args.offsetsPs) : args.offsetsPs[k] = 0) =>
        /\ Grouped(args.channels, args.coincWindowPs)
               => ret = Len(args.channels[1])
        /\ (args.coincWindowPs = 100
            /\ args.channels \in {<<TestBase, TestNFoldCh2, TestNFoldCh3>>,
                                  <<TestBase, TestNFoldCh2>>}) => ret = 10

\* C10 witness: three channels in two or more groups, counted.
C10_Witness ==
    /\ Returned("countNFoldCoincidences") /\ ~threw
    /\ Len(args.channels) = 3
    /\ args.offsetsPs = <<>>
    /\ Grouped(args.channels, args.coincWindowPs)
    /\ ret >= 2
    /\ \E g \in 1..Len(args.channels[1]) :
           args.channels[1][g] # args.channels[2][g]

\* ------------------------------------------- specification of a Singles

\* Largest number of mutating calls in a behaviour.
MaxOps == 3

\* Slice indices handed to ensureSecond.
SecondRange == -2..2

InitSingles ==
    /\ pc = "ready"
    /\ op = "none"
    /\ view1 = <<>>
    /\ view2 = <<>>
    /\ args = NoArgs
    /\ results = <<>>
    /\ threw = FALSE
    /\ ret = 0
    /\ matches = <<>>
    /\ scratch = <<>>
    /\ singles = [EmptySingles EXCEPT !.channel = 1]
    /\ channels_ = EmptyMap
    /\ latestChunks_ = EmptyMap
    /\ windowSeconds_ = 200
    /\ latestSecond_ = LatestUnset
    /\ nOps = 0
    /\ DriverIdle

\* ensureSecond(singles, second); args keeps the Singles as it was before.
CallEnsureSecond ==
    /\ nOps < MaxOps
    /\ \E second \in SecondRange :
        \E out \in {ensureSecond(singles, second)} :
            /\ args' = [second |-> second, before |-> singles]
            /\ singles' = out.singles
            /\ ret' = out.idx
    /\ op' = "ensureSecond"
    /\ nOps' = nOps + 1
    /\ UNCHANGED driverVars
    /\ UNCHANGED <<pc, view1, view2, results, threw, matches>>
    /\ UNCHANGED <<scratch, channels_, latestChunks_, windowSeconds_,
                   latestSecond_>>

\* appendTimestamp(singles, second, ts) of the reader.
CallAppendTimestamp ==
    /\ nOps < MaxOps
    /\ \E second \in SecondRange, ts \in {1, 2} :
        /\ args' = [second |-> second, ts |-> ts, before |-> singles]
        /\ singles' = appendTimestamp(singles, second, ts)
    /\ op' = "appendTimestamp"
    /\ ret' = 0
    /\ nOps' = nOps + 1
    /\ UNCHANGED driverVars
    /\ UNCHANGED <<pc, view1, view2, results, threw, matches>>
    /\ UNCHANGED <<scratch, channels_, latestChunks_, windowSeconds_,
                   latestSecond_>>

NextSingles ==
    \/ CallEnsureSecond
    \/ CallAppendTimestamp

SpecSingles == InitSingles /\ [][NextSingles]_vars

\* -------------------------------------- specification of a RollingSingles

\* The members of the RollingSingles.
Rs ==
    [channels_ |-> channels_, latestChunks_ |-> latestChunks_,
     windowSeconds_ |-> windowSeconds_, latestSecond_ |-> latestSecond_]

\* The Singles a chunk carries for a channel: len buckets from slice base
\* on, their events tagged with the number n of calls made before.
ChunkSingles(channel, base, len, n) ==
    [channel |-> channel, baseSecond |-> base,
     eventsPerSecond |->
         [k \in 1..len |->
             IF k = 1 THEN <<10 * n + 1>> ELSE <<10 * n + 2, 10 * n + 3>>]]

\* The entries a chunk may carry for channel 1 and for channel 2: with no
\* buckets, or with one or two buckets.
Entries1(n) ==
    {ChunkSingles(1, 0, 0, n), ChunkSingles(1, 0, 2, n),
     ChunkSingles(1, 1, 2, n), ChunkSingles(1, 2, 2, n),
     ChunkSingles(1, 4, 1, n)}

Entries2(n) == {ChunkSingles(2, 0, 1, n), ChunkSingles(2, 4, 1, n)}

\* The chunks: maps carrying channel 1, channel 2, both or none.
Chunks(n) ==
    {EmptyMap}
    \cup {MapPut(EmptyMap, 1, e) : e \in Entries1(n)}
    \cup {MapPut(EmptyMap, 2, e) : e \in Entries2(n)}
    \cup {MapPut(MapPut(EmptyMap, 1, e), 2, f) :
              e \in Entries1(n), f \in Entries2(n)}

\* Channels asked for by the readers; channel 3 is never appended.
ReadChannels == {1, 2, 3}

\* Slices asked for by the readers.
ReadSeconds == {-1, 0, 2, 4, 5}

InitRolling ==
    /\ pc = "ready"
    /\ op = "none"
    /\ view1 = <<>>
    /\ view2 = <<>>
    /\ args = NoArgs
    /\ results = <<>>
    /\ threw = FALSE
    /\ ret = 0
    /\ matches = <<>>
    /\ scratch = <<>>
    /\ singles = EmptySingles
    /\ channels_ = EmptyMap
    /\ latestChunks_ = EmptyMap
    /\ windowSeconds_ \in {1, 3}
    /\ latestSecond_ = LatestUnset
    /\ nOps = 0
    /\ DriverIdle

\* The members take the values of rs.
Becomes(rs) ==
    /\ channels_' = rs.channels_
    /\ latestChunks_' = rs.latestChunks_
    /\ windowSeconds_' = rs.windowSeconds_
    /\ latestSecond_' = rs.latestSecond_

CallAppendChunk ==
    /\ pc = "ready"
    /\ nOps < MaxOps
    /\ \E chunk \in Chunks(nOps) :
        /\ args' = [chunk |-> chunk, before |-> Rs]
        /\ Becomes(appendChunk(Rs, chunk))
    /\ op' = "appendChunk"
    /\ ret' = 0
    /\ nOps' = nOps + 1
    /\ UNCHANGED driverVars
    /\ UNCHANGED <<pc, view1, view2, results, threw, matches, scratch, singles>>

CallPrune ==
    /\ pc = "ready"
    /\ nOps < MaxOps
    /\ args' = [before |-> Rs]
    /\ Becomes(prune(Rs))
    /\ op' = "prune"
    /\ ret' = 0
    /\ nOps' = nOps + 1
    /\ UNCHANGED driverVars
    /\ UNCHANGED <<pc, view1, view2, results, threw, matches, scratch, singles>>

CallSetWindow ==
    /\ pc = "ready"
    /\ nOps < MaxOps
    /\ \E seconds \in {-1, 0, 1, 4} :
        /\ args' = [seconds |-> seconds, before |-> Rs]
        /\ Becomes(setWindow(Rs, seconds))
    /\ op' = "setWindow"
    /\ ret' = 0
    /\ nOps' = nOps + 1
    /\ UNCHANGED driverVars
    /\ UNCHANGED <<pc, view1, view2, results, threw, matches, scratch, singles>>

CallChannelSingles ==
    /\ pc = "ready"
    /\ \E channel \in ReadChannels :
        \E out \in {channelSingles(Rs, channel)} :
            /\ args' = [channel |-> channel, before |-> Rs]
            /\ ret' = out.ret
            /\ Becomes(out.rs)
    /\ op' = "channelSingles"
    /\ pc' = "done"
    /\ UNCHANGED driverVars
    /\ UNCHANGED <<view1, view2, results, threw, matches, scratch, singles, nOps>>

CallLatestChunk ==
    /\ pc = "ready"
    /\ \E channel \in ReadChannels :
        \E out \in {latestChunk(Rs, channel)} :
            /\ args' = [channel |-> channel, before |-> Rs]
            /\ ret' = out.ret
            /\ Becomes(out.rs)
    /\ op' = "latestChunk"
    /\ pc' = "done"
    /\ UNCHANGED driverVars
    /\ UNCHANGED <<view1, view2, results, threw, matches, scratch, singles, nOps>>

\* eventsForSecond(rolling.channelSingles(channel), second).
CallEventsForSecond ==
    /\ pc = "ready"
    /\ \E channel \in ReadChannels, second \in ReadSeconds :
        \E out \in {channelSingles(Rs, channel)} :
            /\ args' = [channel |-> channel, second |-> second,
                        singles |-> out.ret, before |-> Rs]
            /\ ret' = eventsForSecond(out.ret, second)
            /\ Becomes(out.rs)
    /\ op' = "eventsForSecond"
    /\ pc' = "done"
    /\ UNCHANGED driverVars
    /\ UNCHANGED <<view1, view2, results, threw, matches, scratch, singles, nOps>>

NextRolling ==
    \/ CallAppendChunk
    \/ CallPrune
    \/ CallSetWindow
    \/ CallChannelSingles
    \/ CallLatestChunk
    \/ CallEventsForSecond

SpecRolling == InitRolling /\ [][NextRolling]_vars

\* The absolute slices a Singles has buckets for.
Covered(s) == s.baseSecond..(s.baseSecond + Len(s.eventsPerSecond) - 1)

\* The bucket a Singles stores for a slice it covers.
BucketAt(s, second) == s.eventsPerSecond[second - s.baseSecond + 1]

\* C14: after ensureSecond(singles, s) slice s is covered, the covered range
\* is the contiguous hull of the old range and s, every bucket that existed
\* holds the same timestamps at the same absolute slice, every new bucket is
\* empty, and the returned handle is the bucket of absolute slice s.
C14_EnsureSecondFrame ==
    (op = "ensureSecond") =>
        LET before == args.before
            s == args.second
            old == IF before.eventsPerSecond = <<>> THEN {} ELSE Covered(before)
            lo == IF old = {} THEN s ELSE StdMin(before.baseSecond, s)
            hi == IF old = {} THEN s
                  ELSE StdMax(before.baseSecond
                                  + Len(before.eventsPerSecond) - 1, s)
        IN  /\ singles.baseSecond <= s
            /\ s < singles.baseSecond + Len(singles.eventsPerSecond)
            /\ Covered(singles) = lo..hi
            /\ \A t \in old : BucketAt(singles, t) = BucketAt(before, t)
            /\ \A t \in Covered(singles) \ old : BucketAt(singles, t) = <<>>
            /\ singles.baseSecond + ret = s
            /\ singles.channel = before.channel

\* C14 witness: ensureSecond prepended two or more buckets to a Singles
\* that held events.
C14_Witness ==
    /\ op = "ensureSecond"
    /\ args.before.eventsPerSecond # <<>>
    /\ \E k \in 1..Len(args.before.eventsPerSecond) :
           args.before.eventsPerSecond[k] # <<>>
    /\ args.second < args.before.baseSecond - 1

\* C11: when the next bucket is empty, appendNextFirstEvent returns exactly
\* the current bucket's elements (none when it is empty) and writes no
\* element into scratch; otherwise it returns the current bucket followed by
\* exactly one element, the first timestamp of the next bucket; the two
\* input buckets are as before.
C11_BridgeView ==
    Returned("appendNextFirstEvent") =>
        LET cur == args.currentSecond
            nxt == args.nextSecond
        IN  /\ (nxt = <<>>) =>
                   /\ ret = cur
                   /\ args.out.aliases # "scratch"
                   /\ scratch = args.scratch \/ scratch = <<>>
            /\ (nxt # <<>>) =>
                   /\ Len(ret) = Len(cur) + 1
                   /\ SubSeq(ret, 1, Len(cur)) = cur
                   /\ ret[Len(ret)] = nxt[1]
            /\ args.out.currentSecond = cur
            /\ args.out.nextSecond = nxt

\* C11 witness: a non-empty bucket bridged to a non-empty next bucket
\* through a scratch that held stale elements.
C11_Witness ==
    /\ Returned("appendNextFirstEvent")
    /\ args.currentSecond # <<>>
    /\ args.nextSecond # <<>>
    /\ args.scratch # <<>>
    /\ scratch # args.scratch

\* Index of delay 0 on the scan's grid, or -1 when 0 is not a grid delay.
ZeroIndex ==
    IF \E k \in GridIndices : GridDelay(k) = 0
    THEN CHOOSE k \in GridIndices : GridDelay(k) = 0
    ELSE -1

\* The last event of bucket `last` and the first event of bucket `first` of
\* the next slice are at most w apart.
EdgePair(last, first, w) ==
    last # <<>> /\ first # <<>> /\ first[1] - last[Len(last)] <= w

\* C12 (as claimed): when the last event of slice s in one channel and the
\* first event of slice s+1 in the other channel are at most w apart, the
\* scan of slice s fed by the bridged view reports that pair at delay 0 on
\* top of the pairs inside the slice, which are all the scan of the
\* un-bridged buckets reports.
C12_BridgeReportsPairClaim ==
    (Returned("ScanSecond") /\ ret = FALSE /\ ~threw /\ ZeroIndex >= 0) =>
        LET w == args.coincWindowPs
            b1 == eventsForSecond(Singles1, args.sec)
            n1 == eventsForSecond(Singles1, args.sec + 1)
            b2 == eventsForSecond(Singles2, args.sec)
            n2 == eventsForSecond(Singles2, args.sec + 1)
            inSlice == CrossCount(b1, b2, w, 0)
            edges == (IF EdgePair(b1, n2, w) THEN 1 ELSE 0)
                     + (IF EdgePair(b2, n1, w) THEN 1 ELSE 0)
            plain == computeCoincidencesForRange(b1, b2, w, args.delayStartPs,
                         args.delayEndPs, args.delayStepPs).results
        IN  (edges > 0) =>
                /\ results[ZeroIndex + 1].second >= inSlice + edges
                /\ plain[ZeroIndex + 1].second = inSlice

\* Number of events of the stream in slices before sec.
Offset(stream, sec) ==
    Cardinality({n \in 1..Len(stream) :
                    bucketIndex(stream[n], 0, SliceWidth) < sec})

\* C13 (as claimed): with slices wider than w, every pair of events in
\* adjacent slices that the sweep over the unsliced streams matches is
\* matched by the sweep of some second over the bridged views.
C13_BridgeLosesNoPairClaim ==
    (Returned("countAtDelay") /\ SliceWidth > args.coincWindowPs) =>
        \A m \in 1..Len(SweepRun(view1, view2, args.coincWindowPs,
                                 args.delayPs).matched) :
            LET p == SweepRun(view1, view2, args.coincWindowPs,
                              args.delayPs).matched[m]
                sl1 == bucketIndex(view1[p[1] + 1], 0, SliceWidth)
                sl2 == bucketIndex(view2[p[2] + 1], 0, SliceWidth)
            IN  (Abs(sl1 - sl2) = 1) =>
                    \E r \in 1..Len(matches) :
                        \E q \in 1..Len(matches[r].matched) :
                            /\ Offset(view1, matches[r].sec)
                                   + matches[r].matched[q][1] = p[1]
                            /\ Offset(view2, matches[r].sec)
                                   + matches[r].matched[q][2] = p[2]

\* C15: reads of missing data return empty values and change nothing.
\* eventsForSecond returns an empty bucket for every slice outside
\* [baseSecond, baseSecond + len), negative slices and a Singles with no
\* buckets included; channelSingles and latestChunk return empty instances
\* for a channel that has no entry, and no reader changes the members, so
\* no entry is created for the channel.
C15_MissingReadsEmpty ==
    /\ (/\ op = "eventsForSecond"
        /\ args.second \notin Covered(args.singles))
       => ret = <<>>
    /\ (/\ op = "channelSingles"
        /\ args.channel \notin DOMAIN args.before.channels_)
       => ret = EmptySingles
    /\ (/\ op = "latestChunk"
        /\ args.channel \notin DOMAIN args.before.latestChunks_)
       => ret = <<>>
    /\ op \in {"eventsForSecond", "channelSingles", "latestChunk"}
       => /\ Rs = args.before
          /\ DOMAIN channels_ = DOMAIN args.before.channels_
          /\ DOMAIN latestChunks_ = DOMAIN args.before.latestChunks_

\* A bucket of a negative slice was read from a channel never appended,
\* while another channel is stored.
C15_Witness ==
    /\ op = "eventsForSecond"
    /\ args.second < 0
    /\ args.channel = 3
    /\ args.singles = EmptySingles
    /\ 1 \in DOMAIN channels_
    /\ 3 \notin DOMAIN channels_
    /\ ret = <<>>
\* The oldest slice the window keeps: latestSecond_ - windowSeconds_ + 1.
MinSlice == latestSecond_ - windowSeconds_ + 1

\* C16: after every appendChunk, with M the largest slice seen so far, no
\* stored channel has a bucket of a slice below M - windowSeconds + 1, and
\* every channel stored before the call is still stored after it (a channel
\* whose whole range is older has no buckets left but is present).
C16_PruneInvariantClaim ==
    (op = "appendChunk" /\ latestSecond_ # LatestUnset)
    => /\ \A c \in DOMAIN channels_ :
              \A second \in Covered(channels_[c]) : second >= MinSlice
       /\ \A c \in DOMAIN args.before.channels_ : c \in DOMAIN channels_
\* The members on entry to the prune() that the last call ran: the members
\* before a prune, those with the new window in setWindow, and those after
\* the merge loop in appendChunk.
BeforePrune ==
    CASE op = "prune" -> args.before
      [] op = "setWindow" ->
             [args.before EXCEPT !.windowSeconds_ = StdMax(1, args.seconds)]
      [] op = "appendChunk" ->
             AppendEntries(args.before, args.chunk, DOMAIN args.chunk)

\* Channel c was stored on entry to prune() with a range that starts below
\* MinSlice and reaches it.
Straddles(c) ==
    /\ c \in DOMAIN BeforePrune.channels_
    /\ BeforePrune.channels_[c].baseSecond < MinSlice
    /\ MinSlice \in Covered(BeforePrune.channels_[c])

\* Window 3 and three successive chunks carrying slices {0,1}, {2,3}, {4}
\* of channel 1: the third has just been appended.
ThreeChunks ==
    /\ op = "appendChunk"
    /\ nOps = 3
    /\ windowSeconds_ = 3
    /\ 1 \in DOMAIN args.chunk
    /\ args.chunk[1] = ChunkSingles(1, 4, 1, 2)
    /\ args.before.latestSecond_ = 3
    /\ 1 \in DOMAIN args.before.channels_
    /\ args.before.latestChunks_[1] = ChunkSingles(1, 2, 2, 1).eventsPerSecond
    /\ args.before.channels_[1] =
           [channel |-> 1, baseSecond |-> 1,
            eventsPerSecond |-> <<<<2, 3>>, <<11>>, <<12, 13>>>>]

\* C17: pruning drops exactly the old slices. When a channel's stored range
\* straddles min_slice = latestSecond - window + 1, prune sets its
\* baseSecond to min_slice, and its buckets are those of the slices from
\* min_slice on, each with its timestamps unchanged. For window 3 and
\* chunks covering slices {0,1}, {2,3}, {4} the channel ends with
\* baseSecond 2 and exactly the buckets of slices 2..4.
C17_PruneDropsOldSlices ==
    /\ (op \in {"prune", "setWindow", "appendChunk"}
        /\ latestSecond_ # LatestUnset)
       => \A c \in DOMAIN channels_ :
              Straddles(c)
              => LET was == BeforePrune.channels_[c]
                     now == channels_[c]
                 IN  /\ now.baseSecond = MinSlice
                     /\ Covered(now) = {x \in Covered(was) : x >= MinSlice}
                     /\ \A x \in Covered(now) :
                            BucketAt(now, x) = BucketAt(was, x)
    /\ ThreeChunks
       => channels_[1] =
              [channel |-> 1, baseSecond |-> 2,
               eventsPerSecond |-> <<<<11>>, <<12, 13>>, <<21>>>>]

\* The third chunk of the scenario was appended, and channel 1 straddled
\* slice 2 when prune ran.
C17_Witness ==
    /\ ThreeChunks
    /\ Straddles(1)
    /\ MinSlice = 2
    /\ BeforePrune.channels_[1].baseSecond = 1
\* The bucket a Singles has for a slice; empty where it has none.
ContentAt(s, second) ==
    IF second \in Covered(s) THEN BucketAt(s, second) ELSE <<>>

\* The Singles stored for channel c in the members rs; EmptySingles if none.
Stored(rs, c) ==
    IF c \in DOMAIN rs.channels_ THEN rs.channels_[c] ELSE EmptySingles

\* The slices a chunk carries, over all its channels.
ChunkSlices(chunk) == UNION {Covered(chunk[c]) : c \in DOMAIN chunk}

\* C18: appendChunk merges by order-preserving concatenation. For every
\* channel of the chunk and every slice of the chunk still inside the window
\* after the call, the stored bucket is its previous content followed by the
\* chunk's events for the slice in their order; no bucket of a channel not
\* in the chunk is extended; latestSecond is the maximum of its previous
\* value and every slice the chunk carries, so it never decreases.
C18_AppendConcatenates ==
    op = "appendChunk"
    => /\ \A c \in DOMAIN args.chunk :
              \A second \in Covered(args.chunk[c]) :
                  second >= MinSlice
                  => /\ c \in DOMAIN channels_
                     /\ second \in Covered(channels_[c])
                     /\ BucketAt(channels_[c], second) =
                            ContentAt(Stored(args.before, c), second)
                            \o BucketAt(args.chunk[c], second)
       /\ \A c \in DOMAIN channels_ \ DOMAIN args.chunk :
              /\ c \in DOMAIN args.before.channels_
              /\ \A second \in Covered(channels_[c]) :
                     /\ second \in Covered(args.before.channels_[c])
                     /\ BucketAt(channels_[c], second) =
                            BucketAt(args.before.channels_[c], second)
       /\ latestSecond_ >= args.before.latestSecond_
       /\ \A second \in ChunkSlices(args.chunk) : latestSecond_ >= second
       /\ latestSecond_ \in
              {args.before.latestSecond_} \cup ChunkSlices(args.chunk)

\* A chunk added events to a bucket of channel 1 that already held events
\* and raised latestSecond, while channel 2, stored but not in the chunk,
\* kept its buckets.
C18_Witness ==
    /\ op = "appendChunk"
    /\ DOMAIN args.chunk = {1}
    /\ 2 \in DOMAIN channels_
    /\ channels_[2].eventsPerSecond # <<>>
    /\ latestSecond_ > args.before.latestSecond_
    /\ args.before.latestSecond_ # LatestUnset
    /\ \E second \in Covered(args.chunk[1]) :
           /\ second >= MinSlice
           /\ ContentAt(Stored(args.before, 1), second) # <<>>
           /\ Len(BucketAt(channels_[1], second)) >= 2
\* C19: after appendChunk(chunk), for every channel that is a key of the
\* chunk, latestChunk(channel) equals the chunk's buckets for the channel
\* exactly, also when the chunk's entry has no buckets, whatever prune
\* dropped; channels absent from the chunk keep their previous latestChunk.
C19_LatestChunkClaim ==
    op = "appendChunk"
    => /\ \A c \in DOMAIN args.chunk :
              latestChunk(Rs, c).ret = args.chunk[c].eventsPerSecond
       /\ \A c \in ReadChannels \ DOMAIN args.chunk :
              latestChunk(Rs, c).ret = latestChunk(args.before, c).ret
\* C20: setWindow(n) stores max(1, n) as the window length and then prunes
\* with the new length. After the call windowSeconds() >= 1 for every n,
\* zero and negative included; latestSecond is unchanged; the stored
\* channels are the same; a channel that reaches the new window has no
\* bucket below it; and every bucket stored after the call was stored
\* before it with the same events, so enlarging the window restores no
\* bucket that a shorter window dropped.
C20_SetWindowClampsAndPrunes ==
    op = "setWindow"
    => /\ windowSeconds_ = (IF args.seconds > 1 THEN args.seconds ELSE 1)
       /\ windowSeconds_ >= 1
       /\ latestSecond_ = args.before.latestSecond_
       /\ latestChunks_ = args.before.latestChunks_
       /\ DOMAIN channels_ = DOMAIN args.before.channels_
       /\ \A c \in DOMAIN channels_ :
              /\ (latestSecond_ # LatestUnset
                  /\ \E x \in Covered(channels_[c]) : x >= MinSlice)
                 => \A x \in Covered(channels_[c]) : x >= MinSlice
              /\ \A x \in Covered(channels_[c]) :
                     /\ x \in Covered(args.before.channels_[c])
                     /\ BucketAt(channels_[c], x) =
                            BucketAt(args.before.channels_[c], x)

\* The window was enlarged from 1 to 4 after slice 0 of channel 1 had been
\* dropped: slice 0 is inside the new window and is not stored.
C20_Witness ==
    /\ op = "setWindow"
    /\ args.seconds = 4
    /\ args.before.windowSeconds_ = 1
    /\ latestSecond_ = 1
    /\ 1 \in DOMAIN channels_
    /\ channels_[1].baseSecond = 1
    /\ channels_[1].eventsPerSecond = <<<<2, 3>>>>
    /\ 0 >= MinSlice
    /\ 0 \notin Covered(channels_[1])
\* ------------------------------ specification of merges of reader chunks

\* Timestamps of the events of a chunk: the first two of slice 0 and the
\* first two of slice 1.
MergeTimes == {0, 1, SliceWidth, SliceWidth + 1}

\* The timestamps of channel 1 in a chunk, in order of arrival.
MergeStreams ==
    {<<t>> : t \in MergeTimes} \cup {<<t, u>> : t \in MergeTimes, u \in MergeTimes}

\* The chunk the reader builds from the events of channel 1.
ReadChunk(stream) ==
    MapPut(EmptyMap, 1, ReadSingles(1, stream, SliceWidth, Len(stream)))

InitMerge ==
    /\ pc = "ready"
    /\ op = "none"
    /\ view1 = <<>>
    /\ view2 = <<>>
    /\ args = NoArgs
    /\ results = <<>>
    /\ threw = FALSE
    /\ ret = 0
    /\ matches = <<>>
    /\ scratch = <<>>
    /\ singles = EmptySingles
    /\ channels_ = EmptyMap
    /\ latestChunks_ = EmptyMap
    /\ windowSeconds_ \in {1, 200}
    /\ latestSecond_ = LatestUnset
    /\ nOps = 0
    /\ DriverIdle

CallAppendReadChunk ==
    /\ pc = "ready"
    /\ nOps < MaxOps
    /\ \E stream \in MergeStreams :
        /\ view1' = stream
        /\ args' = [chunk |-> ReadChunk(stream), before |-> Rs]
        /\ Becomes(appendChunk(Rs, ReadChunk(stream)))
    /\ op' = "appendChunk"
    /\ ret' = 0
    /\ nOps' = nOps + 1
    /\ UNCHANGED driverVars
    /\ UNCHANGED <<pc, view2, results, threw, matches, scratch, singles>>

NextMerge == CallAppendReadChunk

SpecMerge == InitMerge /\ [][NextMerge]_vars

\* Every bucket of s is non-decreasing and holds only timestamps of its own
\* slice.
BucketsInSlices(s) ==
    \A second \in Covered(s) :
        /\ IsSorted(BucketAt(s, second))
        /\ \A k \in 1..Len(BucketAt(s, second)) :
               /\ second * SliceWidth <= BucketAt(s, second)[k]
               /\ BucketAt(s, second)[k] < (second + 1) * SliceWidth

\* C21: if every bucket of every appended chunk is non-decreasing and lies
\* in its own slice, then after any sequence of appendChunk calls every
\* bucket stored in the RollingSingles is non-decreasing.
C21_SortedBucketsClaim ==
    (/\ op = "appendChunk"
     /\ \A c \in DOMAIN args.chunk : BucketsInSlices(args.chunk[c])
     /\ \A c \in DOMAIN args.before.channels_ :
            \A second \in Covered(args.before.channels_[c]) :
                IsSorted(BucketAt(args.before.channels_[c], second)))
    => \A c \in DOMAIN channels_ :
           \A second \in Covered(channels_[c]) :
               IsSorted(BucketAt(channels_[c], second))
\* ------------------------------------------- specification of the reader

\* Raw timestamps of the lines of a file; 0 marks a line that is skipped.
RawTimes == 0..(2 * SliceWidth + 1)

\* The lines of a file, in order of arrival.
RawStreams ==
    {<<>>} \cup {<<t>> : t \in RawTimes}
    \cup {<<t, u>> : t \in RawTimes, u \in RawTimes}

InitRead ==
    /\ pc = "ready"
    /\ op = "none"
    /\ view1 \in RawStreams
    /\ view2 = <<>>
    /\ args = NoArgs
    /\ results = <<>>
    /\ threw = FALSE
    /\ ret = 0
    /\ matches = <<>>
    /\ StoreIdle

CallReadCSVtoSingles ==
    /\ pc = "ready"
    /\ \E out \in {readCSVtoSingles(1, view1, SliceWidth)} :
        /\ singles' = out.singles
        /\ args' = [stream |-> view1, bucketWidthPs |-> SliceWidth,
                    first |-> out.first, firstTimestamp |-> out.firstTimestamp]
    /\ op' = "readCSVtoSingles"
    /\ pc' = "done"
    /\ UNCHANGED driverVars
    /\ UNCHANGED <<view1, view2, results, threw, ret, matches, scratch,
                   channels_, latestChunks_, windowSeconds_, latestSecond_, nOps>>

NextRead == CallReadCSVtoSingles

SpecRead == InitRead /\ [][NextRead]_vars

\* Floor of a / b for b > 0.
FloorDiv(a, b) == a \div b

\* C22: every event with raw timestamp ts, in any arrival order (also with
\* ts below the first valid timestamp), is stored as ts - firstTimestamp in
\* the bucket of slice floor((ts - firstTimestamp) / W), so every timestamp
\* t stored in the bucket of slice s satisfies s * W <= t < (s + 1) * W.
C22_SliceAssignmentClaim ==
    op = "readCSVtoSingles"
    => /\ \A n \in 1..Len(args.stream) :
              args.stream[n] # 0
              => LET t == args.stream[n] - args.firstTimestamp
                     s == FloorDiv(t, args.bucketWidthPs)
                 IN  /\ s \in Covered(singles)
                     /\ \E k \in 1..Len(BucketAt(singles, s)) :
                            BucketAt(singles, s)[k] = t
       /\ \A s \in Covered(singles) :
              \A k \in 1..Len(BucketAt(singles, s)) :
                  /\ s * args.bucketWidthPs <= BucketAt(singles, s)[k]
                  /\ BucketAt(singles, s)[k] < (s + 1) * args.bucketWidthPs
\* The merged list of a call ordered by shifted timestamp, ties broken by
\* channel index.
TieBrokenMerge(channels, offsetsPs) ==
    LET merged == MergedUpTo(channels, offsetsPs, Len(channels))
    IN  CHOOSE sorted \in SortOutcomes(merged, 1..Len(merged)) :
            \A k \in 1..(Len(sorted) - 1) :
                sorted[k].timestamp = sorted[k + 1].timestamp
                => sorted[k].channelIdx <= sorted[k + 1].channelIdx

\* C23: the N-fold count is a function of its inputs. The merged list is
\* ordered by shifted timestamp with ties broken by channel index, so the
\* value countNFoldCoincidences returns is the count over that order and is
\* the same however the sort orders events of different channels with equal
\* shifted timestamps.
C23_NFoldDeterministicClaim ==
    (/\ op = "countNFoldCoincidences"
     /\ ~threw
     /\ Len(args.channels) >= 3 \/ args.offsetsPs # <<>>)
    => /\ \A out \in countNFoldCoincidences(args.channels, args.coincWindowPs,
                                             args.offsetsPs) :
              out.ret = ret
       /\ ret = NFoldSweep(TieBrokenMerge(args.channels, args.offsetsPs),
                           Len(args.channels), args.coincWindowPs)
\* The configuration of the scan the last call ran.
ScanConfig == buildConfig(args.delayStartPs, args.delayEndPs, args.delayStepPs)

\* The last call was a scan that ran the histogram pass over view1, view2.
PassRan ==
    /\ op = "computeCoincidencesForRange"
    /\ ~threw
    /\ ScanConfig.steps > 0
    /\ view1 # <<>>
    /\ view2 # <<>>

\* The locals of the pass when the inner loop for t1 = view1[n] starts.
PassAt(n) == ScanAfter(view1, view2, args.coincWindowPs, ScanConfig, n)

\* C24: in the histogram pass over sorted A and B the two indices into B
\* never decrease from one t1 to the next, jLo <= jHi <= |B| holds whenever
\* the inner loop over [jLo, jHi) starts, and that range holds exactly the B
\* events with t1 - (end + w) <= B[j] <= t1 - (start - w).
C24_PassIndices ==
    PassRan
    => \A n \in 1..Len(view1) :
           LET t1 == view1[n]
               w == args.coincWindowPs
           IN  /\ PassAt(n - 1).jLo <= PassAt(n).jLo
               /\ PassAt(n - 1).jHi <= PassAt(n).jHi
               /\ PassAt(n).jLo <= PassAt(n).jHi
               /\ PassAt(n).jHi <= Len(view2)
               /\ {j \in 1..Len(view2) :
                       PassAt(n).jLo < j /\ j <= PassAt(n).jHi}
                  = {j \in 1..Len(view2) :
                       /\ t1 - (ScanConfig.endPs + w) <= view2[j]
                       /\ view2[j] <= t1 - (ScanConfig.startPs - w)}

\* A pass in which the first t1 left an event of B above its range and the
\* last t1 left an event of B below its range, both ranges non-empty.
C24_Witness ==
    /\ PassRan
    /\ Len(view1) >= 2
    /\ PassAt(1).jLo < PassAt(1).jHi
    /\ PassAt(1).jHi < Len(view2)
    /\ PassAt(Len(view1)).jLo > 0
    /\ PassAt(Len(view1)).jLo < PassAt(Len(view1)).jHi
\* The last call was an N-fold count that took the sliding-window sweep.
SweepRan ==
    /\ op = "countNFoldCoincidences"
    /\ ~threw
    /\ Len(args.channels) >= 2
    /\ Len(args.channels) >= 3 \/ args.offsetsPs # <<>>
    /\ \E k \in 1..Len(args.channels) : args.channels[k] # <<>>

\* The orders the sort of the last call may have left the merged list in.
MergedOrders ==
    LET merged == MergedUpTo(args.channels, args.offsetsPs, Len(args.channels))
    IN  SortOutcomes(merged, 1..Len(merged))

\* The locals of the sweep of the last call over `sorted`: before the loop
\* over right (the first entry) and after each iteration.
SweepTrace(sorted) ==
    NFoldTrace(sorted, Len(args.channels), args.coincWindowPs,
               NFoldInit(Len(args.channels)), <<NFoldInit(Len(args.channels))>>)

\* The locals at the test of have == K in iteration n (right = n - 1) of
\* the sweep with the trace `trace` over `sorted`.
TestAt(sorted, trace, n) ==
    NFoldTest(sorted, Len(args.channels), args.coincWindowPs, trace[n])

\* Iteration n of the sweep recorded a coincidence.
Recorded(trace, n) == trace[n + 1].coincidences = trace[n].coincidences + 1

\* C25: in the sliding-window sweep each step of right records at most one
\* coincidence; directly after recording one, left advances by exactly one
\* with f and have decremented for the removed event (and a step that
\* records none leaves them alone); so every merged event is the leftmost
\* event of at most one recorded coincidence, and the count never exceeds
\* the number of merged events.
C25_OneRecordPerStep ==
    SweepRan
    => \A sorted \in MergedOrders :
           LET trace == SweepTrace(sorted)
           IN  /\ Len(trace) = Len(sorted) + 1
               /\ \A n \in 1..Len(sorted) :
                      LET at == TestAt(sorted, trace, n)
                          after == trace[n + 1]
                          lidx == sorted[at.left + 1].channelIdx
                      IN  /\ at.coincidences = trace[n].coincidences
                          /\ after.coincidences \in
                                 {at.coincidences, at.coincidences + 1}
                          /\ Recorded(trace, n)
                             => /\ after.left = at.left + 1
                                /\ after.freq =
                                       [at.freq EXCEPT ![lidx + 1] = @ - 1]
                                /\ after.have =
                                       Cardinality({k \in 1..Len(args.channels) :
                                                       after.freq[k] > 0})
                                /\ after.have \in {at.have, at.have - 1}
                          /\ ~Recorded(trace, n)
                             => /\ after.left = at.left
                                /\ after.freq = at.freq
                                /\ after.have = at.have
               /\ \A n \in 1..Len(sorted) : \A m \in (n + 1)..Len(sorted) :
                      (Recorded(trace, n) /\ Recorded(trace, m))
                      => trace[n + 1].left <= trace[m + 1].left - 1
               /\ trace[Len(trace)].coincidences <= Len(sorted)
               /\ ret <= Len(sorted)

\* A sweep over three channels that recorded two coincidences and, between
\* them or around them, ran a step that recorded none.
C25_Witness ==
    /\ SweepRan
    /\ Len(args.channels) = 3
    /\ ret >= 2
    /\ \E sorted \in MergedOrders :
           LET trace == SweepTrace(sorted)
           IN  /\ trace[Len(trace)].coincidences = ret
               /\ \E n \in 1..Len(sorted) : ~Recorded(trace, n)
               /\ \E n \in 1..Len(sorted) : \E m \in (n + 1)..Len(sorted) :
                      /\ Recorded(trace, n)
                      /\ Recorded(trace, m)
                      /\ trace[n + 1].left = trace[m + 1].left - 1
\* The 1-based positions of merged[left..right] at a test in iteration n.
WindowAt(at, n) == (at.left + 1)..n

\* C26: at every test of have == K, left <= right < |merged|; every event
\* of merged[left..right] has a shifted timestamp within w of merged[right];
\* f[k] is the number of channel-k events in merged[left..right]; have is
\* the number of channels with f[k] > 0. Hence a coincidence is recorded
\* only when the window holds an event of every channel, all pairwise
\* within w.
C26_WindowInvariant ==
    SweepRan
    => \A sorted \in MergedOrders :
           LET trace == SweepTrace(sorted)
               w == args.coincWindowPs
               K == Len(args.channels)
           IN  \A n \in 1..Len(sorted) :
                   LET at == TestAt(sorted, trace, n)
                       right == n - 1
                   IN  /\ at.left <= right
                       /\ right < Len(sorted)
                       /\ \A p \in WindowAt(at, n) :
                              sorted[right + 1].timestamp - sorted[p].timestamp
                                  <= w
                       /\ \A k \in 1..K :
                              at.freq[k] =
                                  Cardinality({p \in WindowAt(at, n) :
                                                  sorted[p].channelIdx = k - 1})
                       /\ at.have = Cardinality({k \in 1..K : at.freq[k] > 0})
                       /\ Recorded(trace, n)
                          => /\ \A k \in 1..K : \E p \in WindowAt(at, n) :
                                    sorted[p].channelIdx = k - 1
                             /\ \A p \in WindowAt(at, n) :
                                    \A q \in WindowAt(at, n) :
                                        Abs(sorted[p].timestamp
                                            - sorted[q].timestamp) <= w

\* An iteration dropped expired events and then recorded a coincidence.
C26_Witness ==
    /\ SweepRan
    /\ \E sorted \in MergedOrders :
           LET trace == SweepTrace(sorted)
           IN  \E n \in 1..Len(sorted) :
                   /\ TestAt(sorted, trace, n).left > trace[n].left
                   /\ Recorded(trace, n)
\* ------------------------------- specification of the peak-and-report driver

\* The events of one channel of the file, relative to the first timestamp.
PairStreams ==
    {<<>>, <<1>>, <<1, SliceWidth + 1>>, <<2, SliceWidth>>, <<SliceWidth + 2>>}

\* The channels the file may hold events of.
PairChannels == {1, 2, 5, 6}

\* The map the reader returns for the events `streams` gives each channel:
\* only channels with events are in it.
ReadMap(streams) ==
    [c \in {d \in DOMAIN streams : streams[d] # <<>>} |->
        ReadSingles(c, streams[c], SliceWidth, Len(streams[c]))]

\* The command lines: window 1, delays -2..2 in steps of 1, and the
\* requested seconds.
PairsParams ==
    {[coincWindowPs |-> 1, delayStartPs |-> -2, delayEndPs |-> 2,
      delayStepPs |-> 1, startSec |-> a, stopSec |-> b] :
        a \in {0, 1}, b \in {0, 1, 3}}

InitPairs ==
    /\ pc = "ready"
    /\ op = "none"
    /\ view1 = <<>>
    /\ view2 = <<>>
    /\ args = NoArgs
    /\ results = <<>>
    /\ threw = FALSE
    /\ ret = 0
    /\ matches = <<>>
    /\ StoreIdle

CallCoincPairsMain ==
    /\ pc = "ready"
    /\ \E streams \in [PairChannels -> PairStreams], p \in PairsParams :
        /\ args' = [singlesMap |-> ReadMap(streams), p |-> p]
        /\ ret' = CoincPairsMain(ReadMap(streams), p)
    /\ op' = "CoincPairsMain"
    /\ pc' = "done"
    /\ UNCHANGED driverVars
    /\ UNCHANGED <<view1, view2, results, threw, matches>>
    /\ UNCHANGED storeVars

NextPairs == CallCoincPairsMain

SpecPairs == InitPairs /\ [][NextPairs]_vars

\* The eight pairs of the driver.
AllPairs == {SamePairs[k] : k \in 1..4} \cup {CrossAxisPairs[k] : k \in 1..4}

\* The same-axis pair whose delay the pair `pair` uses.
SourceOf(pair) ==
    CHOOSE q \in {SamePairs[k] : k \in 1..4} : q.label = pair.delay_source

\* The delay of a same-axis pair as the last run could determine it at its
\* first in-range slice: none when a channel is missing or a view is empty.
DelayAtStart(q) ==
    IF q.ch1 \notin DOMAIN args.singlesMap \/ q.ch2 \notin DOMAIN args.singlesMap
    THEN NoDelay
    ELSE bestDelayForPair(args.singlesMap[q.ch1], args.singlesMap[q.ch2],
                          ret.startSec, args.p.coincWindowPs,
                          args.p.delayStartPs, args.p.delayEndPs,
                          args.p.delayStepPs)

\* The rows of the last run for the pair `pair`.
RowsFor(pair) == SelectSeq(ret.rows, LAMBDA r : r.pair = pair.label)

\* C27: the delay of each same-axis pair is determined once, at the first
\* in-range slice (the clamped startSec); every row emitted for that pair
\* and for its cross-axis pair, at every slice of [startSec, stopSec], uses
\* that same delay; no row is emitted for a pair whose source same-axis
\* delay could not be determined.
C27_DelayReuse ==
    op = "CoincPairsMain"
    => /\ ret.status # 0 => ret.rows = <<>>
       /\ ret.status = 0
          => /\ ret.startSec =
                    StdMax(args.p.startSec, EarliestOf(args.singlesMap))
             /\ \A k \in 1..Len(ret.rows) :
                    /\ ret.rows[k].second \in ret.startSec..ret.stopSec
                    /\ \E pair \in AllPairs : pair.label = ret.rows[k].pair
             /\ \A pair \in AllPairs :
                    LET d == DelayAtStart(SourceOf(pair))
                        rows == RowsFor(pair)
                    IN  /\ ~d.valid => rows = <<>>
                        /\ \A k \in 1..Len(rows) :
                               /\ rows[k].delayPs = d.delayPs
                               /\ rows[k].delay_ns = d.delayNs
                               /\ rows[k].delay_ns.ps = rows[k].delayPs
                        /\ (/\ d.valid
                            /\ pair.ch1 \in DOMAIN args.singlesMap
                            /\ pair.ch2 \in DOMAIN args.singlesMap)
                           => [k \in 1..Len(rows) |-> rows[k].second]
                              = [k \in 1..(ret.stopSec - ret.startSec + 1) |->
                                    ret.startSec + k - 1]

\* A run over two slices in which HH and VV got different delays, the
\* cross pairs HV and VH have rows, and the start was clamped or not.
C27_Witness ==
    /\ op = "CoincPairsMain"
    /\ ret.status = 0
    /\ ret.stopSec > ret.startSec
    /\ DOMAIN ret.delays = {"HH", "VV"}
    /\ ret.delays["HH"].delayPs # ret.delays["VV"].delayPs
    /\ Len(RowsFor(CrossAxisPairs[1])) = 2
    /\ Len(RowsFor(CrossAxisPairs[2])) = 2
    /\ \E k \in 1..Len(ret.rows) : ret.rows[k].coincidences > 0

\* ----------------------------------- specification of the delay-scan driver

\* coincidencePairs of main in CoincFinder.cpp, as (ch1, ch2).
coincidencePairs ==
    <<<<1, 5>>, <<2, 6>>, <<3, 7>>, <<4, 8>>,
      <<1, 6>>, <<2, 5>>, <<3, 8>>, <<4, 7>>>>

\* The pairs whose two channels are both in the map, in the list's order.
RECURSIVE activePairs(_, _)
activePairs(n, singlesMap) ==
    IF n = 0 THEN <<>>
    ELSE LET pair == coincidencePairs[n]
             before == activePairs(n - 1, singlesMap)
         IN  IF pair[1] \in DOMAIN singlesMap /\ pair[2] \in DOMAIN singlesMap
             THEN Append(before, pair)
             ELSE before

\* Fault variant of OutFile: the name leaves the second channel out.
OutFileNoCh2(ch1, ch2, sec) == <<"delay_scan", ch1, "second", sec>>

\* outFile: "Delay_Scan_Data/delay_scan_<ch1>_vs_<ch2>_second_<sec>.csv",
\* kept as the tuple of its parts (the decimal numerals of distinct
\* integers are distinct, and no numeral contains an underscore).
OutFile(ch1, ch2, sec) == <<"delay_scan", ch1, "vs", ch2, "second", sec>>

\* writeResultsToFile: the file is created or truncated, and holds one line
\* "<first>,<second>" per entry of `res`, in order.
writeResultsToFile(fs, res, filename) ==
    [f \in DOMAIN fs \cup {filename} |-> IF f = filename THEN res ELSE fs[f]]

\* The locals of one iteration of the parallel loop when its body starts;
\* `at` is where the iteration stands: "scan" at the head of the loop over
\* sec, "write" before writeResultsToFile, "count" before ++jobsDone.
WorkerStart(pair, startSec) ==
    [ch1 |-> pair[1], ch2 |-> pair[2], at |-> "scan", sec |-> startSec,
     mergedEvents |-> <<>>, results |-> <<>>, filesWritten |-> 0]

\* What main of CoincFinder.cpp has worked out when it reaches the parallel
\* loop, or that it returned 1 before (the command line's numbers are valid
\* but for startSec > stopSec).
FinderSetup(singlesMap, p) ==
    LET failed == [status |-> 1, startSec |-> p.startSec,
                   stopSec |-> p.stopSec, activePairs |-> <<>>,
                   totalJobs |-> 0]
    IN  IF p.startSec > p.stopSec THEN failed
        ELSE IF \A c \in DOMAIN singlesMap :
                    singlesMap[c].eventsPerSecond = <<>>
        THEN failed
        ELSE LET startSec == StdMax(p.startSec, EarliestOf(singlesMap))
                 stopSec == StdMin(p.stopSec, LatestOf(singlesMap))
                 active == activePairs(Len(coincidencePairs), singlesMap)
             IN  IF startSec > stopSec THEN failed
                 ELSE IF active = <<>> THEN failed
                 ELSE [status |-> 0, startSec |-> startSec,
                       stopSec |-> stopSec, activePairs |-> active,
                       totalJobs |-> Len(active) * (stopSec - startSec + 1)]

\* The channels of the file and the command lines: window 1, delays -1..1
\* in steps of 1, and the requested seconds.
FinderChannels == {1, 5, 6}

FinderParams ==
    {[coincWindow |-> 1, delayStartPs |-> -1, delayEndPs |-> 1,
      delayStepPs |-> 1, startSec |-> a, stopSec |-> b] :
        a \in {0, 1}, b \in {0, 1, 3}}

InitFinder ==
    /\ pc = "ready"
    /\ op = "none"
    /\ view1 = <<>>
    /\ view2 = <<>>
    /\ args = NoArgs
    /\ results = <<>>
    /\ threw = FALSE
    /\ ret = 0
    /\ matches = <<>>
    /\ StoreIdle

\* main up to the parallel loop: it returns 1, or the iterations start.
CallCoincFinderMain ==
    /\ pc = "ready"
    /\ \E streams \in [FinderChannels -> PairStreams], p \in FinderParams :
        LET singlesMap == ReadMap(streams)
            setup == FinderSetup(singlesMap, p)
        IN  /\ args' = [singlesMap |-> singlesMap, p |-> p, setup |-> setup]
            /\ ret' = setup.status
            /\ pc' = IF setup.status = 0 THEN "parallel" ELSE "done"
            /\ workers' = [k \in 1..Len(setup.activePairs) |->
                              WorkerStart(setup.activePairs[k], setup.startSec)]
    /\ op' = "CoincFinderMain"
    /\ UNCHANGED <<files, jobsDone>>
    /\ UNCHANGED <<view1, view2, results, threw, matches>>
    /\ UNCHANGED storeVars

\* The body of the loop over sec of iteration k up to writeResultsToFile:
\* a skipped second goes on to the next one.
WorkerScan(k) ==
    /\ pc = "parallel"
    /\ k \in DOMAIN workers
    /\ workers[k].at = "scan"
    /\ workers[k].sec <= args.setup.stopSec
    /\ LET w == workers[k]
           it == ScanSecond(args.singlesMap[w.ch1], args.singlesMap[w.ch2],
                            w.sec, args.p.coincWindow, args.p.delayStartPs,
                            args.p.delayEndPs, args.p.delayStepPs,
                            w.mergedEvents, w.results)
       IN  workers' = [workers EXCEPT ![k] =
               IF it.skipped
               THEN [w EXCEPT !.mergedEvents = it.mergedEvents,
                              !.sec = @ + 1]
               ELSE [w EXCEPT !.mergedEvents = it.mergedEvents,
                              !.results = it.results, !.at = "write"]]
    /\ UNCHANGED <<files, jobsDone>>
    /\ UNCHANGED engineVars
    /\ UNCHANGED storeVars

\* writeResultsToFile(results, outFile); ++filesWritten.
WorkerWrite(k) ==
    /\ pc = "parallel"
    /\ k \in DOMAIN workers
    /\ workers[k].at = "write"
    /\ LET w == workers[k]
       IN  /\ files' = writeResultsToFile(files, w.results,
                                          OutFile(w.ch1, w.ch2, w.sec))
           /\ workers' = [workers EXCEPT ![k] =
                  [w EXCEPT !.filesWritten = @ + 1, !.at = "count"]]
    /\ UNCHANGED jobsDone
    /\ UNCHANGED engineVars
    /\ UNCHANGED storeVars

\* int done = ++jobsDone (one atomic read-modify-write), then ++sec.
WorkerCount(k) ==
    /\ pc = "parallel"
    /\ k \in DOMAIN workers
    /\ workers[k].at = "count"
    /\ jobsDone' = jobsDone + 1
    /\ workers' = [workers EXCEPT ![k] =
           [workers[k] EXCEPT !.sec = @ + 1, !.at = "scan"]]
    /\ UNCHANGED files
    /\ UNCHANGED engineVars
    /\ UNCHANGED storeVars

\* The loop over sec of iteration k ends.
WorkerFinish(k) ==
    /\ pc = "parallel"
    /\ k \in DOMAIN workers
    /\ workers[k].at = "scan"
    /\ workers[k].sec > args.setup.stopSec
    /\ workers' = [workers EXCEPT ![k] = [workers[k] EXCEPT !.at = "finished"]]
    /\ UNCHANGED <<files, jobsDone>>
    /\ UNCHANGED engineVars
    /\ UNCHANGED storeVars

\* The end of the parallel region: every iteration has finished.
Join ==
    /\ pc = "parallel"
    /\ \A k \in DOMAIN workers : workers[k].at = "finished"
    /\ pc' = "done"
    /\ UNCHANGED <<op, view1, view2, args, results, threw, ret, matches>>
    /\ UNCHANGED driverVars
    /\ UNCHANGED storeVars

NextFinder ==
    \/ CallCoincFinderMain
    \/ \E k \in 1..Len(coincidencePairs) : WorkerScan(k)
    \/ \E k \in 1..Len(coincidencePairs) : WorkerWrite(k)
    \/ \E k \in 1..Len(coincidencePairs) : WorkerCount(k)
    \/ \E k \in 1..Len(coincidencePairs) : WorkerFinish(k)
    \/ Join

SpecFinder == InitFinder /\ [][NextFinder]_vars


\* The parallel loop run by one thread: iteration k of the loop over
\* activePairs with locals w, the files and the counter so far, and the
\* (k, w) passed through.
SeqStart(setup) ==
    [k |-> 1, w |-> WorkerStart(setup.activePairs[1], setup.startSec),
     files |-> <<>>, jobsDone |-> 0, seen |-> {}]

\* One statement group of the loop body in the one-thread run.
SeqStep(singlesMap, p, st) ==
    LET w == st.w
    IN  IF w.at = "scan"
        THEN LET it == ScanSecond(singlesMap[w.ch1], singlesMap[w.ch2], w.sec,
                                  p.coincWindow, p.delayStartPs, p.delayEndPs,
                                  p.delayStepPs, w.mergedEvents, w.results)
             IN  [st EXCEPT !.w =
                     IF it.skipped
                     THEN [w EXCEPT !.mergedEvents = it.mergedEvents,
                                    !.sec = @ + 1]
                     ELSE [w EXCEPT !.mergedEvents = it.mergedEvents,
                                    !.results = it.results, !.at = "write"]]
        ELSE IF w.at = "write"
        THEN [st EXCEPT !.files = writeResultsToFile(@, w.results,
                                      OutFile(w.ch1, w.ch2, w.sec)),
                        !.w = [w EXCEPT !.filesWritten = @ + 1,
                                        !.at = "count"]]
        ELSE [st EXCEPT !.jobsDone = @ + 1,
                        !.w = [w EXCEPT !.sec = @ + 1, !.at = "scan"]]

RECURSIVE SeqRun(_, _, _, _)
SeqRun(singlesMap, p, setup, st) ==
    LET here == [st EXCEPT !.seen = @ \cup {<<st.k, st.w>>}]
    IN  IF st.w.at = "scan" /\ st.w.sec > setup.stopSec
        THEN LET ended == [here EXCEPT !.seen =
                              @ \cup {<<st.k, [st.w EXCEPT !.at = "finished"]>>}]
             IN  IF st.k = Len(setup.activePairs) THEN ended
                 ELSE SeqRun(singlesMap, p, setup,
                             [ended EXCEPT !.k = @ + 1,
                                 !.w = WorkerStart(setup.activePairs[st.k + 1],
                                                   setup.startSec)])
        ELSE SeqRun(singlesMap, p, setup, SeqStep(singlesMap, p, here))

\* The parallel loop of the delay-scan driver is running or has ended.
FinderRan ==
    /\ op = "CoincFinderMain"
    /\ ret = 0
    /\ pc \in {"parallel", "done"}

\* Iterations that have passed ++jobsDone as often as they wrote a file.
Counted == {k \in DOMAIN workers : workers[k].at # "count"}

RECURSIVE SumWritten(_)
SumWritten(k) ==
    IF k = 0 THEN 0 ELSE workers[k].filesWritten + SumWritten(k - 1)

PairsOfSecond(r) ==
    {<<Offset(view1, matches[r].sec) + matches[r].matched[q][1],
       Offset(view2, matches[r].sec) + matches[r].matched[q][2]>> :
        q \in 1..Len(matches[r].matched)}

RECURSIVE SumOfCounts(_)
SumOfCounts(r) == IF r = 0 THEN 0 ELSE matches[r].ret + SumOfCounts(r - 1)

\* C29 (as claimed): in the per-second loop of the peak-and-report driver no
\* pair of events matched by the sweep of one second is matched again by the
\* sweep of another second, and the per-second counts add up to no more than
\* the count of the sweep over the two unsliced streams.
C29_NoDoubleCountClaim ==
    Returned("countAtDelay") =>
        /\ \A r1, r2 \in 1..Len(matches) :
               r1 # r2 => PairsOfSecond(r1) \cap PairsOfSecond(r2) = {}
        /\ SumOfCounts(Len(matches))
               <= SweepRun(view1, view2, args.coincWindowPs, args.delayPs).count


\* The one-to-one matchings between the events of A and B at delay d: sets
\* of index pairs within the window that share no event.
Matchings(A, B, w, d) ==
    {M \in SUBSET CrossPairs(A, B, w, d) :
        \A p \in M, q \in M : (p[1] = q[1] \/ p[2] = q[2]) => p = q}

\* The size of a maximum matching.
MaxMatching(A, B, w, d) ==
    LET sizes == {Cardinality(M) : M \in Matchings(A, B, w, d)}
    IN  CHOOSE n \in sizes : \A m \in sizes : m <= n

\* The count the histogram reports at delay d: the scan of the one-point
\* grid [d, d].
HistogramAt(A, B, w, d) ==
    computeCoincidencesForRange(A, B, w, d, d, 1).results[1].second

\* C30: for sorted A and B, countCoincidencesWithDelay(A, B, w, d) returns
\* the size of a maximum one-to-one matching of the pairs (i, j) with
\* |A[i] - d - B[j]| <= w (compared with every matching for the generic
\* streams); it is never larger than the count the histogram reports at
\* delay d, it is zero exactly when that count is zero, and it is the count
\* returned for the channels swapped and the delay negated.
C30_SweepIsMaximumMatching ==
    Returned("countCoincidencesWithDelay") =>
        LET w == args.coincWindowPs
            d == args.delayPs
            hist == HistogramAt(view1, view2, w, d)
        IN  /\ (view1 \in Streams /\ view2 \in Streams)
                   => ret = MaxMatching(view1, view2, w, d)
            /\ ret <= hist
            /\ (ret = 0) <=> (hist = 0)
            /\ ret = SweepRun(view2, view1, w, -d).count

\* The sweep returned a maximum matching smaller than the histogram's count:
\* some event is within the window of two events of the other channel.
C30_Witness ==
    /\ Returned("countCoincidencesWithDelay")
    /\ view1 \in Streams
    /\ view2 \in Streams
    /\ ret = MaxLen
    /\ ret = MaxMatching(view1, view2, args.coincWindowPs, args.delayPs)
    /\ ret < HistogramAt(view1, view2, args.coincWindowPs, args.delayPs)
    /\ args.delayPs # 0

====
